---- MODULE Spec2Model ----
(***************************************************************************)
(* Resume search and re-ranking: the education matcher                     *)
(* (EnhancedEducationMatcher / FixedEducationMatcher) and the query        *)
(* endpoints that re-rank the candidate pool returned by the vector index. *)
(*                                                                         *)
(* Strings are sequences of one-character strings, so that lower(),        *)
(* split(), substring tests and the regular expressions of the pattern     *)
(* table are computed on characters as the Python code computes them.      *)
(* Confidences are in tenths (0.6 is 6); similarities, distances and       *)
(* composite scores are in thousandths (0.9 is 900).                       *)
(***************************************************************************)
EXTENDS Integers, Sequences, FiniteSets, TLC

\* ------------------------------------------------------------------------
\* Bounds of the model
\* ------------------------------------------------------------------------
MaxFrags == 2
MaxLines == 2
MaxLevels == 2
MaxTextLines == 3
MaxCalls == 2

\* ------------------------------------------------------------------------
\* Strings
\* ------------------------------------------------------------------------
UpperToLower ==
  [c \in {"A","B","C","D","E","F","G","H","I","J","K","L","M",
          "N","O","P","Q","R","S","T","U","V","W","X","Y","Z"} |->
     CASE c = "A" -> "a" [] c = "B" -> "b" [] c = "C" -> "c" [] c = "D" -> "d"
       [] c = "E" -> "e" [] c = "F" -> "f" [] c = "G" -> "g" [] c = "H" -> "h"
       [] c = "I" -> "i" [] c = "J" -> "j" [] c = "K" -> "k" [] c = "L" -> "l"
       [] c = "M" -> "m" [] c = "N" -> "n" [] c = "O" -> "o" [] c = "P" -> "p"
       [] c = "Q" -> "q" [] c = "R" -> "r" [] c = "S" -> "s" [] c = "T" -> "t"
       [] c = "U" -> "u" [] c = "V" -> "v" [] c = "W" -> "w" [] c = "X" -> "x"
       [] c = "Y" -> "y" [] c = "Z" -> "z"]

\* str.lower()
lower(s) ==
  [i \in 1..Len(s) |-> IF s[i] \in DOMAIN UpperToLower THEN UpperToLower[s[i]] ELSE s[i]]

\* the regular expression class \w
WordChars ==
  {"a","b","c","d","e","f","g","h","i","j","k","l","m",
   "n","o","p","q","r","s","t","u","v","w","x","y","z",
   "A","B","C","D","E","F","G","H","I","J","K","L","M",
   "N","O","P","Q","R","S","T","U","V","W","X","Y","Z",
   "0","1","2","3","4","5","6","7","8","9","_"}

Whitespace == {" ", "\n", "\t"}

CharAt(s, i) == IF i >= 1 /\ i <= Len(s) THEN s[i] ELSE ""

\* Python's `sub in s` on strings
Contains(s, sub) ==
  \E i \in 1..(Len(s) - Len(sub) + 1) : SubSeq(s, i, i + Len(sub) - 1) = sub

RECURSIVE LStrip(_)
LStrip(s) == IF s # <<>> /\ Head(s) \in Whitespace THEN LStrip(Tail(s)) ELSE s

RECURSIVE RStrip(_)
RStrip(s) ==
  IF s # <<>> /\ s[Len(s)] \in Whitespace THEN RStrip(SubSeq(s, 1, Len(s) - 1)) ELSE s

\* str.strip()
strip(s) == RStrip(LStrip(s))

\* sep.join(parts), sep a single character
RECURSIVE join(_, _)
join(sep, parts) ==
  IF parts = <<>> THEN <<>>
  ELSE IF Len(parts) = 1 THEN parts[1]
  ELSE parts[1] \o <<sep>> \o join(sep, Tail(parts))

\* the least number of a non-empty set of numbers
Least(S) == CHOOSE x \in S : \A y \in S : x <= y

\* the first position of sep in s from p on, Len(s) + 1 when there is none
NextSep(s, sep, p) ==
  IF \E i \in p..Len(s) : s[i] = sep
  THEN Least({i \in p..Len(s) : s[i] = sep}) ELSE Len(s) + 1

\* s.split(sep), sep a single character: always at least one piece; the
\* pieces of s from position p on
RECURSIVE SplitFrom(_, _, _)
SplitFrom(s, sep, p) ==
  IF NextSep(s, sep, p) > Len(s) THEN <<SubSeq(s, p, Len(s))>>
  ELSE <<SubSeq(s, p, NextSep(s, sep, p) - 1)>> \o SplitFrom(s, sep, NextSep(s, sep, p) + 1)

split(s, sep) == SplitFrom(s, sep, 1)

\* ------------------------------------------------------------------------
\* Regular expressions of the shape \b(?:alt|alt|...)\b
\* An alternative is a sequence of literal characters; ".?" stands for the
\* optional dot \.? (greedy, given back on backtracking).
\* ------------------------------------------------------------------------
\* \b holds between s[p-1] and s[p]
WordBoundary(s, p) == (CharAt(s, p - 1) \in WordChars) # (CharAt(s, p) \in WordChars)

\* Position after a match of alt[i..] at s[p..] followed by \b; 0 when none.
RECURSIVE MatchAlt(_, _, _, _)
MatchAlt(alt, i, s, p) ==
  IF i > Len(alt) THEN (IF WordBoundary(s, p) THEN p ELSE 0)
  ELSE IF alt[i] = ".?" THEN
    LET taken == IF CharAt(s, p) = "." THEN MatchAlt(alt, i + 1, s, p + 1) ELSE 0
    IN  IF taken # 0 THEN taken ELSE MatchAlt(alt, i + 1, s, p)
  ELSE IF CharAt(s, p) = alt[i] THEN MatchAlt(alt, i + 1, s, p + 1)
  ELSE 0

\* Alternatives are tried left to right; the first that matches wins.
RECURSIVE MatchAlts(_, _, _, _)
MatchAlts(alts, k, s, p) ==
  IF k > Len(alts) THEN 0
  ELSE LET e == MatchAlt(alts[k], 1, s, p)
       IN  IF e # 0 THEN e ELSE MatchAlts(alts, k + 1, s, p)

\* for each position of s, the position after the match that starts there;
\* 0 when no alternative matches there
MatchEnds(alts, s) ==
  [q \in 1..Len(s) |-> IF WordBoundary(s, q) THEN MatchAlts(alts, 1, s, q) ELSE 0] @@ <<>>

\* the matches from position p on: the scan goes on after each match
RECURSIVE FindAllFrom(_, _, _)
FindAllFrom(ends, s, p) ==
  IF \A q \in p..Len(s) : ends[q] = 0 THEN <<>>
  ELSE LET start == Least({q \in p..Len(s) : ends[q] # 0})
       IN  <<SubSeq(s, start, ends[start] - 1)>> \o FindAllFrom(ends, s, ends[start])

\* re.findall(pattern, s): the non-overlapping matches, left to right
re_findall(alts, s) == FindAllFrom(MatchEnds(alts, s), s, 1)

\* ------------------------------------------------------------------------
\* EnhancedEducationMatcher: the pattern table and the hierarchy
\* ------------------------------------------------------------------------
phd_pattern_1 ==
  << <<"p","h",".?","d",".?">>,
     <<"d","o","c","t","o","r"," ","o","f"," ","p","h","i","l","o","s","o","p","h","y">>,
     <<"d","o","c","t","o","r","a","t","e">>,
     <<"d","o","c","t","o","r","a","l">>,
     <<"d",".","p","h","i","l">>,
     <<"d","p","h","i","l">> >>

phd_pattern_2 ==
  << <<"p","h","d">>,
     <<"p","h",".","d">>,
     <<"p","h",".","d",".">>,
     <<"d","o","c","t","o","r"," ","o","f"," ","p","h","i","l","o","s","o","p","h","y">>,
     <<"d","o","c","t","o","r","a","t","e">>,
     <<"d","o","c","t","o","r","a","l">>,
     <<"d",".","p","h","i","l">>,
     <<"d","p","h","i","l">> >>

masters_pattern_1 ==
  << <<"m",".?","s",".?">>,
     <<"m",".?","t","e","c","h">>,
     <<"m","t","e","c","h">>,
     <<"m",".?","s","c">>,
     <<"m","s","c">>,
     <<"m","a","s","t","e","r"," ","o","f">>,
     <<"m","b","a">>,
     <<"m",".?","e",".?">>,
     <<"m","e">>,
     <<"m","c","a">>,
     <<"m",".?","c","o","m">>,
     <<"m","c","o","m">>,
     <<"m",".?","a",".?">>,
     <<"m","a">>,
     <<"m","a","s","t","e","r","'","s">>,
     <<"m","a","s","t","e","r"," ","d","e","g","r","e","e">> >>

masters_pattern_2 ==
  << <<"m",".","s",".">>,
     <<"m","s">>,
     <<"m",".","t","e","c","h">>,
     <<"m","t","e","c","h">>,
     <<"m",".","s","c">>,
     <<"m","s","c">>,
     <<"m","a","s","t","e","r"," ","o","f">>,
     <<"m","b","a">>,
     <<"m",".","e",".">>,
     <<"m","e">>,
     <<"m","c","a">>,
     <<"m",".","c","o","m">>,
     <<"m","c","o","m">>,
     <<"m",".","a",".">>,
     <<"m","a">>,
     <<"m","a","s","t","e","r","'","s">>,
     <<"m","a","s","t","e","r"," ","d","e","g","r","e","e">> >>

bachelors_pattern_1 ==
  << <<"b",".?","e",".?">>,
     <<"b","t","e","c","h">>,
     <<"b",".?","t","e","c","h">>,
     <<"b",".?","s","c">>,
     <<"b","s","c">>,
     <<"b","c","a">>,
     <<"b",".?","e","n","g">>,
     <<"b","a","c","h","e","l","o","r"," ","o","f">>,
     <<"b","a","c","h","e","l","o","r","'","s">>,
     <<"b",".?","c","o","m">>,
     <<"b","c","o","m">>,
     <<"b",".?","a",".?">>,
     <<"b","a">>,
     <<"b","a","c","h","e","l","o","r"," ","d","e","g","r","e","e">>,
     <<"b","a","c","h","e","l","o","r"," ","o","f"," ","t","e","c","h","n","o","l","o","g","y">>,
     <<"b","a","c","h","e","l","o","r"," ","o","f"," ","e","n","g","i","n","e","e","r","i","n","g">> >>

bachelors_pattern_2 ==
  << <<"b",".","e",".">>,
     <<"b","t","e","c","h">>,
     <<"b",".","t","e","c","h">>,
     <<"b",".","s","c">>,
     <<"b","s","c">>,
     <<"b","c","a">>,
     <<"b",".","e","n","g">>,
     <<"b","a","c","h","e","l","o","r"," ","o","f">>,
     <<"b","a","c","h","e","l","o","r","'","s">>,
     <<"b",".","c","o","m">>,
     <<"b","c","o","m">>,
     <<"b",".","a",".">>,
     <<"b","a">>,
     <<"b","a","c","h","e","l","o","r"," ","d","e","g","r","e","e">>,
     <<"b","a","c","h","e","l","o","r"," ","o","f"," ","t","e","c","h","n","o","l","o","g","y">>,
     <<"b","a","c","h","e","l","o","r"," ","o","f"," ","e","n","g","i","n","e","e","r","i","n","g">> >>

L_phd == <<"p","h","d">>
L_masters == <<"m","a","s","t","e","r","s">>
L_bachelors == <<"b","a","c","h","e","l","o","r","s">>

\* a table whose phd entry holds the bachelors patterns
education_patterns_phd_overwritten ==
  (L_phd :> <<bachelors_pattern_1, bachelors_pattern_2>>) @@
  (L_masters :> <<masters_pattern_1, masters_pattern_2>>) @@
  (L_bachelors :> <<bachelors_pattern_1, bachelors_pattern_2>>)

education_patterns ==
  (L_phd :> <<phd_pattern_1, phd_pattern_2>>) @@
  (L_masters :> <<masters_pattern_1, masters_pattern_2>>) @@
  (L_bachelors :> <<bachelors_pattern_1, bachelors_pattern_2>>)

education_hierarchy ==
  (L_bachelors :> 1) @@ (L_masters :> 2) @@ (L_phd :> 3)

\* self.education_hierarchy.get(level, 0)
HierarchyGet(level) ==
  IF level \in DOMAIN education_hierarchy THEN education_hierarchy[level] ELSE 0

education_keywords ==
  << <<"e","d","u","c","a","t","i","o","n">>,
     <<"q","u","a","l","i","f","i","c","a","t","i","o","n">>,
     <<"d","e","g","r","e","e">>,
     <<"a","c","a","d","e","m","i","c">>,
     <<"u","n","i","v","e","r","s","i","t","y">>,
     <<"c","o","l","l","e","g","e">>,
     <<"i","n","s","t","i","t","u","t","e">>,
     <<"s","c","h","o","o","l">> >>

section_terminators ==
  << <<"e","x","p","e","r","i","e","n","c","e">>,
     <<"w","o","r","k"," ","h","i","s","t","o","r","y">>,
     <<"p","r","o","f","e","s","s","i","o","n","a","l"," ","e","x","p","e","r","i","e","n","c","e">>,
     <<"s","k","i","l","l","s">>,
     <<"p","r","o","j","e","c","t","s">>,
     <<"c","e","r","t","i","f","i","c","a","t","i","o","n">>,
     <<"a","c","h","i","e","v","e","m","e","n","t","s">> >>

specific_keywords ==
  << <<"p","h","d">>,
     <<"d","o","c","t","o","r","a","t","e">>,
     <<"m","a","s","t","e","r","s">>,
     <<"m","b","a">>,
     <<"b","t","e","c","h">>,
     <<"b","a","c","h","e","l","o","r">> >>

W_experience == <<"e","x","p","e","r","i","e","n","c","e">>
W_work == <<"w","o","r","k">>

\* any(k in s for k in keys)
AnyIn(keys, s) == \E k \in 1..Len(keys) : Contains(s, keys[k])

\* The loop of extract_education_section over lines[i..]
RECURSIVE ExtractLoop(_, _, _, _)
ExtractLoop(lines, i, in_education, education_lines) ==
  IF i > Len(lines) THEN education_lines
  ELSE LET line == lines[i]
           line_lower == strip(lower(line))
       IN  IF AnyIn(education_keywords, line_lower)
           THEN ExtractLoop(lines, i + 1, TRUE, Append(education_lines, line))
           ELSE IF in_education
           THEN IF AnyIn(section_terminators, line_lower)
                THEN education_lines
                ELSE ExtractLoop(lines, i + 1, TRUE, Append(education_lines, line))
           ELSE ExtractLoop(lines, i + 1, FALSE, education_lines)

\* the lines that hold a start keyword, and none of the lines after them
RECURSIVE HeaderLines(_, _)
HeaderLines(lines, i) ==
  IF i > Len(lines) THEN <<>>
  ELSE (IF AnyIn(education_keywords, strip(lower(lines[i]))) THEN <<lines[i]>> ELSE <<>>)
       \o HeaderLines(lines, i + 1)

extract_education_section_headers_only(text) == join("\n", HeaderLines(split(text, "\n"), 1))

extract_education_section(text) ==
  join("\n", ExtractLoop(split(text, "\n"), 1, FALSE, <<>>))

\* a confidence without the penalty for "experience" or "work"
calculate_confidence_no_penalty(keywords_found, education_section, level) ==
  LET c1 == IF \E k \in 1..Len(keywords_found) : Contains(education_section, keywords_found[k])
            THEN 8 ELSE 5
  IN  IF \E k \in 1..Len(specific_keywords) :
           \E j \in 1..Len(keywords_found) : keywords_found[j] = specific_keywords[k]
      THEN c1 + 2 ELSE c1

calculate_confidence(keywords_found, education_section, level) ==
  LET base == 5
      c1 == IF \E k \in 1..Len(keywords_found) : Contains(education_section, keywords_found[k])
            THEN base + 3 ELSE base
      c2 == IF \E k \in 1..Len(specific_keywords) :
                 \E j \in 1..Len(keywords_found) : keywords_found[j] = specific_keywords[k]
            THEN c1 + 2 ELSE c1
      c3 == IF Contains(education_section, W_experience) \/ Contains(education_section, W_work)
            THEN c2 - 1 ELSE c2
      lo == IF c3 > 0 THEN c3 ELSE 0
  IN  IF lo < 10 THEN lo ELSE 10

DefaultLevels == <<L_phd, L_masters, L_bachelors>>


\* ------------------------------------------------------------------------
\* Inputs of the matcher: texts built from fragments, requested level lists
\* ------------------------------------------------------------------------
F_phd == <<"p","h","d">>
F_PhD_dotted == <<"P","h",".","D",".">>
F_btech == <<"b","t","e","c","h">>
F_bsc == <<"b",".","s","c">>
F_mba == <<"m","b","a">>
F_BTech_broken == <<"B",".","T"," ","e","c","h",".">>
F_education == <<"e","d","u","c","a","t","i","o","n">>
F_schoolwork == <<"s","c","h","o","o","l","w","o","r","k">>
F_experience == <<"e","x","p","e","r","i","e","n","c","e">>

Fragments ==
  {F_phd, F_PhD_dotted, F_btech, F_bsc, F_mba, F_BTech_broken,
   F_education, F_schoolwork, F_experience}

Separators == {" ", "\n"}

RECURSIVE Assemble(_, _, _)
Assemble(frags, seps, i) ==
  IF i > Len(frags) THEN <<>>
  ELSE IF i = Len(frags) THEN frags[i]
  ELSE frags[i] \o <<seps[i]>> \o Assemble(frags, seps, i + 1)

\* Texts of at most MaxFrags fragments on at most MaxLines lines
Texts ==
  UNION { { Assemble(frags, seps, 1) :
              frags \in [1..n -> Fragments],
              seps \in { q \in [1..(n - 1) -> Separators] :
                           Cardinality({j \in 1..(n - 1) : q[j] = "\n"}) < MaxLines } }
          : n \in 0..MaxFrags }

\* the texts of the test cases of test_education_fixes.py
T_BTech_only ==
  <<"2","0","1","5"," ","B",".","T"," ","e","c","h","."," ","E","C","E"," ","f","r","o",
    "m"," ","I","T","E","R",","," ","N","A","M","E"," ","O"," ","N","A","M","E"," ","w",
    "i","t","h"," ","7",".","2","1"," ","C","G","P","A"," ","2","0","1","1"," ","1","2",
    "t","h","f"," ","r","o","m"," ","N","A","M","E"," ","S","c","h","o","o","l">>

T_MTech_BTech ==
  <<"M","t","e","c","h"," ","I","n"," ","A","r","t","i","f","i","c","i","a","l"," ","I",
    "n","t","e","l","l","i","g","e","n","c","e"," ","D","a","t","a"," ","S","c","i","e",
    "n","c","e"," ","E","n","g","i","n","e","e","r","i","n","g"," ","J","U","L","Y"," ",
    "2","0","2","4"," ","p","r","e","s","e","n","t"," ","P"," ","U","N","J","A","B","I",
    " ","U","N","I","V","E","R","S","I","T","Y"," ","P","a","t","i","a","l","a",",","P",
    "u","n","j","a","b",",","i","n","d","i","a"," ","B","t","e","c","h"," ","I","n"," ",
    "C","o","m","p","u","t","e","r"," ","S","c","i","e","n","c","e"," ","E","n","g","i",
    "n","e","e","r","i","n","g"," ","2","0","1","5"," ","2","0","1","9">>

T_Masters_BSc ==
  <<"M","a","s","t","e","r","s"," ","i","n"," ","C","o","m","p","u","t","e","r"," ","S",
    "c","i","e","n","c","e"," ","f","r","o","m"," ","U","n","i","v","e","r","s","i","t",
    "y"," ","o","f"," ","T","e","x","a","s",","," ","B",".","S","c"," ","i","n"," ","M",
    "a","t","h","e","m","a","t","i","c","s"," ","f","r","o","m"," ","S","t","a","t","e",
    " ","U","n","i","v","e","r","s","i","t","y">>

T_PhD_Masters ==
  <<"P","h","D"," ","i","n"," ","C","o","m","p","u","t","e","r"," ","S","c","i","e","n",
    "c","e"," ","f","r","o","m"," ","M","I","T",","," ","M","a","s","t","e","r","s"," ",
    "i","n"," ","M","a","t","h","e","m","a","t","i","c","s"," ","f","r","o","m"," ","S",
    "t","a","n","f","o","r","d">>

CaseTexts == {T_BTech_only, T_MTech_BTech, T_Masters_BSc, T_PhD_Masters}

\* The documents of the vector index: resume rid holds DocKinds[((rid-1) % 5)+1],
\* so that two resumes of the index have the same text
D_phd_python_java == <<"p","h","d"," ","p","y","t","h","o","n"," ","j","a","v","a">>
D_btech_python_7_years ==
  <<"b","t","e","c","h"," ","p","y","t","h","o","n"," ","7"," ","y","e","a","r","s">>
D_PhD_dotted_btech_java == <<"P","h",".","D","."," ","b","t","e","c","h"," ","j","a","v","a">>
D_education_mba_2_yrs ==
  <<"e","d","u","c","a","t","i","o","n","\n","m","b","a"," ","2"," ","y","r","s">>
D_BTech_broken_sql == <<"B",".","T"," ","e","c","h","."," ","s","q","l">>

DocKinds ==
  <<D_phd_python_java, D_btech_python_7_years, D_PhD_dotted_btech_java,
    D_education_mba_2_yrs, D_BTech_broken_sql>>

\* every text the model hands to the matcher
ScanTexts == Texts \cup {DocKinds[k] : k \in 1..Len(DocKinds)} \cup CaseTexts

L_PhD == <<"P","h","D">>

LevelNames == {L_phd, L_masters, L_bachelors, L_PhD}

LevelLists == UNION { [1..n -> LevelNames] : n \in 0..MaxLevels }

\* keywords_found of one level: the findall results of its patterns, in order
RECURSIVE KeywordsOf(_, _, _)
KeywordsOf(patterns, k, text_lower) ==
  IF k > Len(patterns) THEN <<>>
  ELSE re_findall(patterns[k], text_lower) \o KeywordsOf(patterns, k + 1, text_lower)

\* the match data of one text: its section, the keywords found for each
\* level and the confidence of each level
ScanRecord(education_section, keywords_found) ==
  [education_section |-> education_section,
   keywords_found |-> keywords_found,
   confidence |->
     [level \in DOMAIN keywords_found |->
        calculate_confidence(keywords_found[level], lower(education_section), level)]]

\* What find_education_matches computes for a text and one level of the
\* pattern table: the keywords found in text.lower(), the education section
\* and the confidence. Tabulated once for each text the model uses.
TextScan ==
  [t \in ScanTexts |->
     ScanRecord(extract_education_section(t),
                [level \in DOMAIN education_patterns |->
                   KeywordsOf(education_patterns[level], 1, lower(t))] @@ <<>>)] @@ <<>>

\* the loop over levels_to_check; scan is what the loop reads of the text
RECURSIVE MatchLoop(_, _, _, _)
MatchLoop(levels_to_check, i, scan, matches) ==
  IF i > Len(levels_to_check) THEN matches
  ELSE IF levels_to_check[i] \notin DOMAIN education_patterns
  THEN MatchLoop(levels_to_check, i + 1, scan, matches)
  ELSE IF scan.keywords_found[levels_to_check[i]] # <<>>
  THEN MatchLoop(levels_to_check, i + 1, scan,
         Append(matches,
           [level |-> levels_to_check[i],
            confidence |-> scan.confidence[levels_to_check[i]],
            context |-> scan.education_section,
            keywords_found |-> scan.keywords_found[levels_to_check[i]]]))
  ELSE MatchLoop(levels_to_check, i + 1, scan, matches)

\* a find_education_matches that reports every requested level, with the
\* name of the level as its keyword
find_education_matches_every_level(text, target_levels) ==
  [i \in 1..Len(target_levels) |->
     [level |-> target_levels[i], confidence |-> 5, context |-> <<>>,
      keywords_found |-> <<target_levels[i]>>]]

find_education_matches(text, target_levels) ==
  MatchLoop(IF target_levels # <<>> THEN target_levels ELSE DefaultLevels,
            1, TextScan[text], <<>>)

RECURSIVE SortFrom(_, _)
SortFrom(matches, key) ==
  IF key < 0 THEN <<>>
  ELSE SelectSeq(matches, LAMBDA m : HierarchyGet(m.level) = key)
         \o SortFrom(matches, key - 1)

\* a sort that puts the lowest level first
SortByHierarchy_ascending(matches) ==
  SelectSeq(matches, LAMBDA m : HierarchyGet(m.level) = 0)
    \o SelectSeq(matches, LAMBDA m : HierarchyGet(m.level) = 1)
    \o SelectSeq(matches, LAMBDA m : HierarchyGet(m.level) = 2)
    \o SelectSeq(matches, LAMBDA m : HierarchyGet(m.level) = 3)

\* matches.sort(key=hierarchy, reverse=True): by ordinal 3, 2, 1, 0; the sort
\* is stable, so matches of equal ordinal keep their order
SortByHierarchy(matches) == SortFrom(matches, 3)

\* the first match with confidence > 0.6, as a sequence of at most one match
RECURSIVE FirstConfident(_, _)
FirstConfident(matches, i) ==
  IF i > Len(matches) THEN <<>>
  ELSE IF matches[i].confidence > 6 THEN <<matches[i]>>
  ELSE FirstConfident(matches, i + 1)

\* a get_highest_education that hands back every match it found
get_highest_education_all(text, target_levels) ==
  SortByHierarchy(find_education_matches(text, target_levels))

\* the confident match of the loop, or else the first of the sorted matches
ConfidentOrFirst(sorted, good) == IF good # <<>> THEN good ELSE <<sorted[1]>>

\* what get_highest_education returns for the matches it found
HighestOf(matches) ==
  IF matches = <<>> THEN <<>>
  ELSE IF Len(matches) > 1
  THEN ConfidentOrFirst(SortByHierarchy(matches), FirstConfident(SortByHierarchy(matches), 1))
  ELSE <<matches[1]>>

\* The result is <<>> for None and <<m>> for the match m.
get_highest_education(text, target_levels) ==
  HighestOf(find_education_matches(text, target_levels))

LowerAll(levels) == [i \in 1..Len(levels) |-> lower(levels[i])]

\* a filter without the membership test
strict_education_filter_any_match(text, target_levels) ==
  get_highest_education(text, target_levels) # <<>>

\* highest_education.level in [level.lower() for level in target_levels]
LevelAmong(highest_education, target_levels) ==
  IF highest_education = <<>> THEN FALSE
  ELSE \E i \in 1..Len(target_levels) :
         LowerAll(target_levels)[i] = highest_education[1].level

strict_education_filter(text, target_levels) ==
  LevelAmong(get_highest_education(text, target_levels), target_levels)

KeywordsFoundOf(highest_education) ==
  IF highest_education = <<>> THEN <<>> ELSE highest_education[1].keywords_found

get_education_keywords_found(text, target_levels) ==
  KeywordsFoundOf(get_highest_education(text, target_levels))

\* ------------------------------------------------------------------------
\* Scoring functions of the endpoints
\* ------------------------------------------------------------------------
ConfidenceOf(highest_education) ==
  IF highest_education = <<>> THEN 0 ELSE highest_education[1].confidence

\* score_education of enhanced_web_app: the confidence of the highest match,
\* in tenths
score_education(text, levels) == ConfidenceOf(get_highest_education(text, levels))

keyword_filter_education(text, levels) == strict_education_filter(text, levels)

find_education_keywords(text, levels) == get_education_keywords_found(text, levels)

\* score_education of hiresight_engine: one point for each requested level
\* one of whose keywords is a substring of the text
engine_keywords ==
  (L_phd :> << <<"p","h","d">>,
               <<"d","o","c","t","o","r"," ","o","f"," ","p","h","i","l","o","s","o","p","h","y">> >>) @@
  (L_masters :> << <<"m","a","s","t","e","r","s">>, <<"m",".","s",".">>, <<"m","s"," ">>,
                   <<"m",".","t","e","c","h">>, <<"m","t","e","c","h">>,
                   <<"m",".","s","c">>, <<"m","s","c">> >>) @@
  (L_bachelors :> << <<"b","a","c","h","e","l","o","r","s">>, <<"b",".","e",".">>,
                     <<"b","t","e","c","h">>, <<"b",".","t","e","c","h">>,
                     <<"b",".","s","c">>, <<"b","s","c">>, <<"b","c","a">>,
                     <<"b",".","e","n","g">> >>)

engine_score_education(text, levels) ==
  Cardinality({i \in 1..Len(levels) :
                 /\ lower(levels[i]) \in DOMAIN engine_keywords
                 /\ AnyIn(engine_keywords[lower(levels[i])], lower(text))})

Digits == {"0","1","2","3","4","5","6","7","8","9"}

DigitValue ==
  ("0" :> 0) @@ ("1" :> 1) @@ ("2" :> 2) @@ ("3" :> 3) @@ ("4" :> 4) @@
  ("5" :> 5) @@ ("6" :> 6) @@ ("7" :> 7) @@ ("8" :> 8) @@ ("9" :> 9)

\* int(s) of a string of digits
RECURSIVE ParseInt(_)
ParseInt(ds) ==
  IF ds = <<>> THEN 0
  ELSE 10 * ParseInt(SubSeq(ds, 1, Len(ds) - 1)) + DigitValue[ds[Len(ds)]]

RECURSIVE DigitsEnd(_, _)
DigitsEnd(s, p) == IF CharAt(s, p) \in Digits THEN DigitsEnd(s, p + 1) ELSE p

RECURSIVE SkipSpace(_, _)
SkipSpace(s, p) == IF CharAt(s, p) \in Whitespace THEN SkipSpace(s, p + 1) ELSE p

StartsAt(s, p, w) == p + Len(w) - 1 <= Len(s) /\ SubSeq(s, p, p + Len(w) - 1) = w

\* (?:years|yrs|year)\b at p: the position after it, or 0
YearsWord(s, p) ==
  IF StartsAt(s, p, <<"y","e","a","r","s">>) /\ WordBoundary(s, p + 5) THEN p + 5
  ELSE IF StartsAt(s, p, <<"y","r","s">>) /\ WordBoundary(s, p + 3) THEN p + 3
  ELSE IF StartsAt(s, p, <<"y","e","a","r">>) /\ WordBoundary(s, p + 4) THEN p + 4
  ELSE 0

\* YEARS_PATTERN (\d+)\s*(?:\+?\s*)?(?:years|yrs|year)\b matched at p:
\* <<int(group 1), position after the match>>, or <<>>
MatchYearsAt(s, p) ==
  IF CharAt(s, p) \notin Digits THEN <<>>
  ELSE LET e == DigitsEnd(s, p)
           q == SkipSpace(s, e)
           plus == IF CharAt(s, q) = "+" THEN YearsWord(s, SkipSpace(s, q + 1)) ELSE 0
           end == IF plus # 0 THEN plus ELSE YearsWord(s, q)
       IN  IF end # 0 THEN <<ParseInt(SubSeq(s, p, e - 1)), end>> ELSE <<>>

\* the loop over YEARS_PATTERN.finditer(text_lower)
RECURSIVE MaxYearsFrom(_, _, _)
MaxYearsFrom(s, p, years) ==
  IF p > Len(s) THEN years
  ELSE LET m == MatchYearsAt(s, p)
       IN  IF m # <<>>
           THEN MaxYearsFrom(s, m[2], IF m[1] > years THEN m[1] ELSE years)
           ELSE MaxYearsFrom(s, p + 1, years)

\* text_lower and the years the text states
TextAndYears(text) ==
  [text_lower |-> lower(text), years |-> MaxYearsFrom(lower(text), 1, 0)]

\* the lower-cased text of each document and the years it states, tabulated
DocScan ==
  [k \in 1..Len(DocKinds) |-> TextAndYears(DocKinds[k])] @@ <<>>

DocIndex(doc) == CHOOSE k \in 1..Len(DocKinds) : DocKinds[k] = doc

ScanOf(text) ==
  IF \E k \in 1..Len(DocKinds) : DocKinds[k] = text
  THEN DocScan[DocIndex(text)]
  ELSE TextAndYears(text)

\* the two loops of score_skills_and_experience over what it read of the text
ScoreOfScan(scan, required_skills, min_years) ==
  2 * Cardinality({i \in 1..Len(required_skills) :
                     Contains(scan.text_lower, lower(required_skills[i]))})
    + (IF scan.years >= min_years THEN 1 ELSE 0)

\* a score whose bonus needs more than min_years
score_skills_and_experience_strict_years(text, required_skills, min_years) ==
  ScoreOfScan(ScanOf(text), required_skills, min_years + 1)

\* score_skills_and_experience, in halves (1.0 is 2)
score_skills_and_experience(text, required_skills, min_years) ==
  ScoreOfScan(ScanOf(text), required_skills, min_years)

\* ------------------------------------------------------------------------
\* The candidate pool: what search_profiles returns
\* ------------------------------------------------------------------------
NumResumes == 6
NumNotes == 1

\* ids stand for file names; their order stands for the order of the names
ResumeRids == 1..NumResumes
NoteRids == (NumResumes + 1)..(NumResumes + NumNotes)

D_interview_note == <<"g","o","o","d"," ","p","y","t","h","o","n">>

DocOf(rid) ==
  IF rid \in NoteRids THEN D_interview_note
  ELSE DocKinds[((rid - 1) % Len(DocKinds)) + 1]

MetaOf(rid) == [type |-> IF rid \in NoteRids THEN "note" ELSE "resume"]

\* distances of the vector index, in thousandths
Dists == {100, 500}

Min(a, b) == IF a < b THEN a ELSE b

\* xs[:n]
Take(xs, n) == SubSeq(xs, 1, Min(n, Len(xs)))

TopK == 5

\* the where clause of search_profiles: notes only when asked for
Queried(include_notes) == IF include_notes THEN ResumeRids \cup NoteRids ELSE ResumeRids

\* the entries of the index nearest first; entries at the same distance come
\* in ascending or in descending order of id
RECURSIVE NearestFirst(_, _, _)
NearestFirst(ids, dist_of, ties_descending) ==
  IF ids = {} THEN <<>>
  ELSE LET first == CHOOSE x \in ids : \A y \in ids \ {x} :
                      \/ dist_of[x] < dist_of[y]
                      \/ /\ dist_of[x] = dist_of[y]
                         /\ IF ties_descending THEN x > y ELSE x < y
       IN  <<[rid |-> first, doc |-> DocOf(first), dist |-> dist_of[first],
              meta |-> MetaOf(first)]>>
           \o NearestFirst(ids \ {first}, dist_of, ties_descending)

\* a search_profiles that never passes the where clause
search_profiles_all_types(top_k, include_notes, dist_of, ties_descending) ==
  Take(NearestFirst(DOMAIN dist_of, dist_of, ties_descending), top_k)

\* search_profiles(query, top_k, include_notes) over an index that holds the
\* documents DOMAIN dist_of at the distances dist_of from the query
search_profiles(top_k, include_notes, dist_of, ties_descending) ==
  Take(NearestFirst(DOMAIN dist_of \cap Queried(include_notes), dist_of, ties_descending),
       top_k)

\* ------------------------------------------------------------------------
\* Re-ranking
\* ------------------------------------------------------------------------
\* the order of the tuples (combined, rid, doc, dist, meta): ids are unique,
\* so the comparison never goes past rid
TupleLess(a, b) ==
  \/ a.combined < b.combined
  \/ a.combined = b.combined /\ a.rid < b.rid

Remove(xs, i) == SubSeq(xs, 1, i - 1) \o SubSeq(xs, i + 1, Len(xs))

\* rescored.sort(reverse=True)
RECURSIVE SortReverse(_)
SortReverse(xs) ==
  IF xs = <<>> THEN <<>>
  ELSE LET i == CHOOSE i \in 1..Len(xs) :
                  /\ \A j \in 1..Len(xs) : ~TupleLess(xs[i], xs[j])
                  /\ \A j \in 1..(i - 1) : TupleLess(xs[j], xs[i])
       IN  <<xs[i]>> \o SortReverse(Remove(xs, i))

SkillsWeight == 3
EducationWeight == 4

\* [s.strip() for s in input.split(",") if s.strip()]
ParseList(input) ==
  LET parts == split(input, ",")
  IN  SelectSeq([i \in 1..Len(parts) |-> strip(parts[i])], LAMBDA x : x # <<>>)

\* re.findall(r"\d+", s)[0]: the first run of digits, or <<>>
RECURSIVE FirstDigits(_, _)
FirstDigits(s, p) ==
  IF p > Len(s) THEN <<>>
  ELSE IF s[p] \in Digits THEN SubSeq(s, p, DigitsEnd(s, p) - 1)
  ELSE FirstDigits(s, p + 1)

\* min_years of api_search_skills: 0 when the field is empty or has no digits
ParseYears(years_input) ==
  IF years_input = <<>> \/ FirstDigits(years_input, 1) = <<>> THEN 0
  ELSE ParseInt(FirstDigits(years_input, 1))

\* a response without a search_type field
NoSearchType == [text |-> "", found |-> 0]

\* the skills score under the weight of the education query
SkillsCombined_education_weight(dist, skill_score) ==
  (1000 - dist) + EducationWeight * 50 * skill_score

\* (1 - dist) + 0.3 * skill_score, in thousandths, for a score in halves
SkillsCombined(dist, skill_score) == (1000 - dist) + SkillsWeight * 50 * skill_score

\* (1 - dist) + 0.4 * edu_score, in thousandths, for a score in tenths
EducationCombined(dist, edu_score) == (1000 - dist) + EducationWeight * 10 * edu_score

\* (1 - dist) + 0.4 * edu_score, in thousandths, for a whole score
EngineEducationCombined(dist, edu_score) == (1000 - dist) + EducationWeight * 100 * edu_score

\* the list of tuples (combined, rid, doc, dist, meta), given the combined
\* score of each candidate
Rescore(cands, combined) ==
  [i \in 1..Len(cands) |->
     [combined |-> combined[i], rid |-> cands[i].rid, doc |-> cands[i].doc,
      dist |-> cands[i].dist, meta |-> cands[i].meta]]

\* the payload entries; round(x, 4) changes no value in thousandths
PlainEntry(c) == [id |-> c.rid, similarity |-> 1000 - c.dist, type |-> c.meta.type]

ScoredEntry(r) ==
  [id |-> r.rid, score |-> r.combined, similarity |-> 1000 - r.dist, type |-> r.meta.type]

EducationEntry(r, search_type, found_keywords) ==
  [id |-> r.rid, score |-> r.combined, similarity |-> 1000 - r.dist,
   type |-> r.meta.type, search_type |-> search_type, found_keywords |-> found_keywords]

Json(results, search_type) ==
  [status |-> "json", results |-> results, search_type |-> search_type]

\* api_search_jd, api_search_general and search_by_jd: the candidates in the
\* order of the index
PlainResults(cands) == [i \in 1..Len(cands) |-> PlainEntry(cands[i])]

\* rescored of the skills queries, sorted
SkillsRescored(cands, skills, min_years) ==
  SortReverse(Rescore(cands,
    [i \in 1..Len(cands) |->
       SkillsCombined(cands[i].dist,
                      score_skills_and_experience(cands[i].doc, skills, min_years))]))

ScoredPayload(top) == [i \in 1..Len(top) |-> ScoredEntry(top[i])]

\* enhanced_web_app.api_search_skills, after search_profiles has returned cands
SkillsResponse(skills_input, years_input, cands) ==
  Json(ScoredPayload(Take(SkillsRescored(cands, ParseList(strip(skills_input)),
                                         ParseYears(strip(years_input))),
                          TopK)),
       NoSearchType)

KeywordMatch == "Enhanced Keyword Match"
SemanticFallback == "Enhanced Semantic Search (No exact keyword matches)"

\* the candidates that pass keyword_filter_education, in the order of the pool
RECURSIVE KeywordFiltered(_, _)
KeywordFiltered(cands, levels) ==
  IF cands = <<>> THEN <<>>
  ELSE (IF keyword_filter_education(Head(cands).doc, levels) THEN <<Head(cands)>> ELSE <<>>)
       \o KeywordFiltered(Tail(cands), levels)

\* rescored of the education query, sorted
EducationRescored(chosen, levels) ==
  SortReverse(Rescore(chosen,
    [i \in 1..Len(chosen) |->
       EducationCombined(chosen[i].dist, score_education(chosen[i].doc, levels))]))

EducationPayload(top, search_type, levels) ==
  Json([i \in 1..Len(top) |->
          EducationEntry(top[i], search_type, find_education_keywords(top[i].doc, levels))],
       search_type)

\* the funnel without its fallback branch
EducationFunnel_no_fallback(cands, keyword_filtered, levels) ==
  EducationPayload(Take(EducationRescored(keyword_filtered, levels), TopK),
                   [text |-> KeywordMatch, found |-> Len(keyword_filtered)], levels)

\* the two branches of api_search_education
EducationFunnel(cands, keyword_filtered, levels) ==
  IF keyword_filtered # <<>>
  THEN EducationPayload(Take(EducationRescored(keyword_filtered, levels), TopK),
                        [text |-> KeywordMatch, found |-> Len(keyword_filtered)], levels)
  ELSE EducationPayload(Take(EducationRescored(cands, levels), TopK),
                        [text |-> SemanticFallback, found |-> 0], levels)

\* enhanced_web_app.api_search_education, after search_profiles has returned cands
EducationResponse(edu_input, cands) ==
  EducationFunnel(cands, KeywordFiltered(cands, ParseList(strip(edu_input))),
                  ParseList(strip(edu_input)))

\* hiresight_engine.search_by_jd(jd, top_k), after search_profiles has
\* returned cands
search_by_jd(cands) == PlainResults(cands)

\* hiresight_engine.search_by_skills(skills, min_years, top_k), after
\* search_profiles has returned cands
search_by_skills(skills, min_years, top_k, cands) ==
  ScoredPayload(Take(SkillsRescored(cands, skills, min_years), top_k))

\* hiresight_engine.search_by_education(levels, top_k), after search_profiles
\* has returned cands
search_by_education(levels, top_k, cands) ==
  ScoredPayload(Take(
    SortReverse(Rescore(cands,
      [i \in 1..Len(cands) |->
         EngineEducationCombined(cands[i].dist,
                                 engine_score_education(cands[i].doc, levels))])),
    top_k))

\* int(years_str) of platform_app.resume_search, for a field of digits and
\* letters: a field that is not all digits raises ValueError
PlatformParseYears(years_str) ==
  IF years_str # <<>> /\ \A i \in 1..Len(years_str) : years_str[i] \in Digits
  THEN ParseInt(years_str)
  ELSE 0

\* render_template('resume_search.html', results, search_type, query)
Page(results, search_type) ==
  [status |-> "page", results |-> results, search_type |-> [text |-> search_type, found |-> 0]]

\* redirect(url_for('login'))
RedirectToLogin == [status |-> "redirect", results |-> <<>>, search_type |-> NoSearchType]

\* ------------------------------------------------------------------------
\* One test case of the matcher test loop (test_fixed_matcher): it calls
\* strict_education_filter, get_highest_education and
\* get_education_keywords_found, in that order
\* ------------------------------------------------------------------------
VARIABLES tc_text, tc_levels, pc, filter_result, highest_result, keywords_result,
          http_request, candidates, http_response, search_pc, index_calls,
          collection, extract_call, score_call, bootstrap,
          education_matcher, matcher_calls, shortlists, shortlist_calls,
          supabase, flask_session, served, clean_call

matcher_vars == <<tc_text, tc_levels, pc, filter_result, highest_result, keywords_result>>

search_vars == <<http_request, candidates, http_response, search_pc, index_calls>>

\* the calls of the pure functions, and the callers of index_if_needed
pure_vars == <<extract_call, score_call>>

\* the shared matcher object and the threads that call it
instance_vars == <<education_matcher, matcher_calls>>

\* the shortlists table and the calls made on it
shortlist_vars == <<shortlists, shortlist_calls>>

\* the Supabase client of the process, the Flask session of each browser and
\* the requests served
auth_vars == <<supabase, flask_session, served>>

platform_vars == <<instance_vars, shortlist_vars, auth_vars, clean_call>>

vars == <<matcher_vars, search_vars, collection, pure_vars, bootstrap, platform_vars>>

\* what a step of the matcher test leaves alone, and what a request does
beyond_matcher == <<search_vars, collection, pure_vars, bootstrap, platform_vars>>

beyond_search == <<matcher_vars, pure_vars, bootstrap, platform_vars>>

\* no request is being served
SearchIdle ==
  /\ http_request = <<>>
  /\ candidates = <<>>
  /\ http_response = <<>>
  /\ search_pc = "idle"
  /\ index_calls = 0

\* no test case of the matcher is running
MatcherIdle ==
  /\ tc_text = <<>>
  /\ tc_levels = <<>>
  /\ pc = "idle"
  /\ filter_result = FALSE
  /\ highest_result = <<>>
  /\ keywords_result = <<>>

\* no pure function is being called, nobody runs index_if_needed
PureIdle == extract_call = <<>> /\ score_call = <<>>

BootstrapIdle == bootstrap = <<>>

InstanceIdle == education_matcher = <<>> /\ matcher_calls = <<>>

ShortlistIdle == shortlists = <<>> /\ shortlist_calls = <<>>

AuthIdle == supabase = <<>> /\ flask_session = <<>> /\ served = <<>>

\* no document is being cleaned
CleanIdle == clean_call = <<>>

PlatformIdle == InstanceIdle /\ ShortlistIdle /\ AuthIdle /\ CleanIdle

MatcherInit ==
  /\ tc_text \in Texts \cup CaseTexts
  /\ tc_levels \in LevelLists
  /\ pc = "filter"
  /\ filter_result = FALSE
  /\ highest_result = <<>>
  /\ keywords_result = <<>>
  /\ SearchIdle
  /\ collection = <<>>
  /\ PureIdle
  /\ BootstrapIdle
  /\ PlatformIdle

CallStrictFilter ==
  /\ pc = "filter"
  /\ filter_result' = strict_education_filter(tc_text, tc_levels)
  /\ pc' = "highest"
  /\ UNCHANGED <<tc_text, tc_levels, highest_result, keywords_result, beyond_matcher>>

CallGetHighest ==
  /\ pc = "highest"
  /\ highest_result' = get_highest_education(tc_text, tc_levels)
  /\ pc' = "keywords"
  /\ UNCHANGED <<tc_text, tc_levels, filter_result, keywords_result, beyond_matcher>>

CallGetKeywords ==
  /\ pc = "keywords"
  /\ keywords_result' = get_education_keywords_found(tc_text, tc_levels)
  /\ pc' = "done"
  /\ UNCHANGED <<tc_text, tc_levels, filter_result, highest_result, beyond_matcher>>

MatcherNext == CallStrictFilter \/ CallGetHighest \/ CallGetKeywords

SpecMatcher == MatcherInit /\ [][MatcherNext]_vars

\* ------------------------------------------------------------------------
\* One search request: the endpoints of enhanced_web_app and the search page
\* of platform_app
\* ------------------------------------------------------------------------
S_python == <<"p","y","t","h","o","n">>
S_python_java == <<"p","y","t","h","o","n",","," ","j","a","v","a">>
S_sql == <<"s","q","l">>
S_5_years == <<"5"," ","y","e","a","r","s">>
S_3 == <<"3">>
S_phd_bachelors == <<" ","p","h","d"," ",","," ","b","a","c","h","e","l","o","r","s">>
S_y == <<"y">>
S_n == <<"n">>
S_blank == <<" ">>
S_abc == <<"a","b","c">>

\* request.form.get(name, ""): a field that was not sent reads as empty
EmptyForm ==
  [jd |-> <<>>, skills |-> <<>>, years |-> <<>>, levels |-> <<>>, q |-> <<>>,
   include_notes |-> <<>>, search_type |-> "jd", education |-> <<>>]

ApiRequest(route, form) ==
  [route |-> route, method |-> "POST", logged_in |-> FALSE, form |-> form]

EnhancedRequests ==
  {ApiRequest("/api/search/jd", [EmptyForm EXCEPT !.jd = v]) : v \in {S_python, <<>>}}
  \cup {ApiRequest("/api/search/skills", [EmptyForm EXCEPT !.skills = v[1], !.years = v[2]]) :
          v \in {<<S_python_java, S_5_years>>, <<S_sql, <<>>>>, <<S_blank, S_abc>>}}
  \cup {ApiRequest("/api/search/education", [EmptyForm EXCEPT !.levels = v]) :
          v \in {L_phd, S_phd_bachelors, L_PhD, L_masters, <<>>}}
  \cup {ApiRequest("/api/search/general", [EmptyForm EXCEPT !.q = v[1], !.include_notes = v[2]]) :
          v \in {<<S_python, S_y>>, <<<<>>, S_n>>}}

PlatformForms ==
  {[EmptyForm EXCEPT !.search_type = "jd", !.jd = S_python]}
  \cup {[EmptyForm EXCEPT !.search_type = "skills", !.skills = v[1], !.years = v[2]] :
          v \in {<<S_python_java, S_5_years>>, <<S_sql, S_3>>}}
  \cup {[EmptyForm EXCEPT !.search_type = "education", !.education = v] :
          v \in {L_phd, <<>>}}

PlatformRequests ==
  {[route |-> "/search", method |-> "POST", logged_in |-> TRUE, form |-> f] : f \in PlatformForms}
  \cup {[route |-> "/search", method |-> "GET", logged_in |-> TRUE, form |-> EmptyForm],
        [route |-> "/search", method |-> "POST", logged_in |-> FALSE,
         form |-> [EmptyForm EXCEPT !.search_type = "education", !.education = L_phd]]}

SearchInit ==
  /\ http_request \in EnhancedRequests \cup PlatformRequests
  /\ candidates = <<>>
  /\ http_response = <<>>
  /\ search_pc = "received"
  /\ index_calls = 0
  /\ \E held \in SUBSET (ResumeRids \cup NoteRids) : collection = [rid \in held |-> 1]
  /\ MatcherIdle
  /\ PureIdle
  /\ BootstrapIdle
  /\ PlatformIdle

\* the handler returns resp
Return(resp) ==
  /\ http_response' = resp
  /\ search_pc' = "responded"
  /\ UNCHANGED <<http_request, collection, beyond_search>>

\* candidates = search_profiles(query, top_k, include_notes): each document
\* the index holds is at some distance from the query
QueryIndex(top_k, include_notes) ==
  /\ index_calls' = index_calls + 1
  /\ \E ties_descending \in BOOLEAN :
       \E dist_of \in [DOMAIN collection -> Dists] :
         candidates' = search_profiles(top_k, include_notes, dist_of, ties_descending)

\* the handler returns without a query of the index
NoQuery == candidates' = <<>> /\ index_calls' = index_calls

Received(route) == search_pc = "received" /\ http_request.route = route

api_search_jd ==
  /\ Received("/api/search/jd")
  /\ IF strip(http_request.form.jd) = <<>>
     THEN NoQuery /\ Return(Json(<<>>, NoSearchType))
     ELSE QueryIndex(5, FALSE) /\ Return(Json(PlainResults(candidates'), NoSearchType))

api_search_skills ==
  /\ Received("/api/search/skills")
  /\ QueryIndex(10, FALSE)
  /\ Return(SkillsResponse(http_request.form.skills, http_request.form.years, candidates'))

api_search_education ==
  /\ Received("/api/search/education")
  /\ QueryIndex(30, FALSE)
  /\ Return(EducationResponse(http_request.form.levels, candidates'))

api_search_general ==
  /\ Received("/api/search/general")
  /\ QueryIndex(5, lower(http_request.form.include_notes) = S_y)
  /\ Return(Json(PlainResults(candidates'), NoSearchType))

\* platform_app.resume_search behind require_login
resume_search ==
  /\ Received("/search")
  /\ LET form == http_request.form
         search_type == form.search_type
         jd == strip(form.jd)
         skills == ParseList(strip(form.skills))
         min_years == PlatformParseYears(strip(form.years))
         levels == ParseList(strip(form.education))
     IN  IF ~http_request.logged_in THEN NoQuery /\ Return(RedirectToLogin)
         ELSE IF http_request.method # "POST" THEN NoQuery /\ Return(Page(<<>>, ""))
         ELSE IF search_type = "jd" /\ jd # <<>>
           THEN QueryIndex(10, FALSE) /\ Return(Page(search_by_jd(candidates'), search_type))
         ELSE IF search_type = "skills" /\ skills # <<>>
           THEN /\ QueryIndex(10, FALSE)
                /\ Return(Page(search_by_skills(skills, min_years, 10, candidates'), search_type))
         ELSE IF search_type = "education" /\ levels # <<>>
           THEN /\ QueryIndex(10, FALSE)
                /\ Return(Page(search_by_education(levels, 10, candidates'), search_type))
         ELSE NoQuery /\ Return(Page(<<>>, search_type))

SearchNext ==
  \/ api_search_jd
  \/ api_search_skills
  \/ api_search_education
  \/ api_search_general
  \/ resume_search

SpecSearch == SearchInit /\ [][SearchNext]_vars

\* ------------------------------------------------------------------------
\* One call of extract_education_section on a text of whole lines
\* ------------------------------------------------------------------------
X_Education == <<"E","d","u","c","a","t","i","o","n">>
X_school_projects == <<"s","c","h","o","o","l"," ","p","r","o","j","e","c","t","s">>
X_Skills == <<"S","k","i","l","l","s">>
X_BSc == <<"B",".","S","c">>

\* a header, a line with a start keyword and a terminator, a terminator and
\* two lines with neither
LineKinds == {X_Education, X_school_projects, X_Skills, F_phd, X_BSc}

SectionTexts ==
  { join("\n", ls) : ls \in UNION { [1..n -> LineKinds] : n \in 1..MaxTextLines } }

ExtractInit ==
  /\ \E t \in SectionTexts : extract_call = [text |-> t, pc |-> "call", section |-> <<>>]
  /\ score_call = <<>>
  /\ MatcherIdle
  /\ SearchIdle
  /\ collection = <<>>
  /\ BootstrapIdle
  /\ PlatformIdle

CallExtract ==
  /\ extract_call # <<>>
  /\ extract_call.pc = "call"
  /\ extract_call' = [extract_call EXCEPT !.pc = "returned",
                                          !.section = extract_education_section(extract_call.text)]
  /\ UNCHANGED <<matcher_vars, search_vars, collection, score_call, bootstrap, platform_vars>>

ExtractNext == CallExtract

SpecExtract == ExtractInit /\ [][ExtractNext]_vars

\* ------------------------------------------------------------------------
\* One call of score_skills_and_experience
\* ------------------------------------------------------------------------
K_Python_7_years == <<"P","y","t","h","o","n"," ","7"," ","y","e","a","r","s">>
K_java_3_plus_yrs == <<"j","a","v","a"," ","3","+"," ","y","r","s">>
K_12_Year == <<"1","2"," ","Y","e","a","r">>
K_2_yearsago == <<"2"," ","y","e","a","r","s","a","g","o">>
K_JAVA == <<"J","A","V","A">>

SkillFragments == {K_Python_7_years, K_java_3_plus_yrs, K_12_Year, K_2_yearsago, S_sql}

\* texts of at most MaxFrags fragments
SkillTexts ==
  { Assemble(frags, [j \in 1..(Len(frags) - 1) |-> " "], 1) :
      frags \in UNION { [1..n -> SkillFragments] : n \in 1..MaxFrags } }

SkillLists == {<<>>, <<S_python>>, <<S_python, K_JAVA>>, <<S_python, S_python>>, <<S_sql>>}

MinYears == {0, 3, 7, 8}

ScoreInit ==
  /\ \E t \in SkillTexts, skills \in SkillLists, y \in MinYears :
       score_call = [text |-> t, required_skills |-> skills, min_years |-> y,
                     pc |-> "call", score |-> 0]
  /\ extract_call = <<>>
  /\ MatcherIdle
  /\ SearchIdle
  /\ collection = <<>>
  /\ BootstrapIdle
  /\ PlatformIdle

CallScore ==
  /\ score_call # <<>>
  /\ score_call.pc = "call"
  /\ score_call' =
       [score_call EXCEPT !.pc = "returned",
          !.score = score_skills_and_experience(score_call.text, score_call.required_skills,
                                                score_call.min_years)]
  /\ UNCHANGED <<matcher_vars, search_vars, collection, extract_call, bootstrap, platform_vars>>

ScoreNext == CallScore

SpecScore == ScoreInit /\ [][ScoreNext]_vars

\* ------------------------------------------------------------------------
\* Two processes that run index_if_needed against the same index
\* ------------------------------------------------------------------------
Callers == {"a", "b"}

\* ids of load_documents(): the files of cleaned_resumes, then those of
\* interview_notes, in the order of the listing
RECURSIVE Listing(_)
Listing(ids) ==
  IF ids = {} THEN <<>>
  ELSE LET first == CHOOSE x \in ids : \A y \in ids : x <= y
       IN  <<first>> \o Listing(ids \ {first})

load_documents == Listing(ResumeRids) \o Listing(NoteRids)

\* len(existing.get("ids", [])) == 0
IndexIsEmpty_always(existing) == TRUE

\* a test that lets the bootstrap run whenever a source document is missing
IndexIsEmpty_incomplete(existing) == Cardinality(existing) < Len(load_documents)

IndexIsEmpty(existing) == Cardinality(existing) = 0

\* an index that stores a second entry under an id it holds
collection_add_second_entry(coll, id) ==
  IF id \in DOMAIN coll THEN [coll EXCEPT ![id] = @ + 1] ELSE coll @@ (id :> 1)

\* collection.add(ids=[id], ...) that returns: an id the index holds is not
\* stored again
collection_add(coll, id) ==
  IF id \in DOMAIN coll THEN coll ELSE coll @@ (id :> 1)

\* adds counts the calls of collection.add the process has made
NotCalling == [pc |-> "start", existing |-> {}, i |-> 1, adds |-> 0, calls |-> 0]

\* the index is empty, holds one resume, or holds every document; the store
\* ignores the insert of an id it holds, or rejects it with an exception
BootstrapInit ==
  /\ \E held \in {{}, {1}, ResumeRids \cup NoteRids} : collection = [rid \in held |-> 1]
  /\ \E on_duplicate \in {"ignore", "raise"} :
       bootstrap = [on_duplicate |-> on_duplicate, procs |-> [c \in Callers |-> NotCalling]]
  /\ MatcherIdle
  /\ SearchIdle
  /\ PureIdle
  /\ PlatformIdle

Proc(c) == bootstrap.procs[c]

SetProc(c, p) ==
  /\ bootstrap' = [bootstrap EXCEPT !.procs[c] = p]
  /\ UNCHANGED <<matcher_vars, search_vars, pure_vars, platform_vars>>

\* existing = collection.get() and the test of its length
CheckExisting(c) ==
  /\ Proc(c).pc = "start"
  /\ UNCHANGED collection
  /\ IF IndexIsEmpty(DOMAIN collection)
     THEN SetProc(c, [Proc(c) EXCEPT !.pc = "add", !.existing = DOMAIN collection, !.i = 1])
     ELSE SetProc(c, [Proc(c) EXCEPT !.pc = "done", !.existing = DOMAIN collection,
                                     !.calls = @ + 1])

\* one round of the loop: collection.add of document i
AddDocument(c) ==
  /\ Proc(c).pc = "add"
  /\ LET id == load_documents[Proc(c).i]
         after == IF Proc(c).i = Len(load_documents) THEN "done" ELSE "add"
     IN  IF id \in DOMAIN collection /\ bootstrap.on_duplicate = "raise"
         THEN /\ UNCHANGED collection
              /\ SetProc(c, [Proc(c) EXCEPT !.pc = "raised", !.adds = @ + 1, !.calls = @ + 1])
         ELSE /\ collection' = collection_add(collection, id)
              /\ SetProc(c, [Proc(c) EXCEPT !.pc = after, !.adds = @ + 1, !.i = @ + 1,
                                            !.calls = IF after = "done" THEN @ + 1 ELSE @])

\* the process calls index_if_needed once more
CallAgain(c) ==
  /\ Proc(c).pc \in {"done", "raised"}
  /\ Proc(c).calls < MaxCalls
  /\ UNCHANGED collection
  /\ SetProc(c, [Proc(c) EXCEPT !.pc = "start", !.existing = {}, !.i = 1])

BootstrapNext == \E c \in Callers : CheckExisting(c) \/ AddDocument(c) \/ CallAgain(c)

SpecBootstrap == BootstrapInit /\ [][BootstrapNext]_vars

\* ------------------------------------------------------------------------
\* The bootstrap with failures of embed_text or collection.add, next to
\* index_resume
\* ------------------------------------------------------------------------
MaxUploads == 1

\* the index is empty; uploads counts the calls of index_resume
PartialInit ==
  /\ collection = <<>>
  /\ \E on_duplicate \in {"ignore", "raise"} :
       bootstrap = [on_duplicate |-> on_duplicate, procs |-> [c \in Callers |-> NotCalling],
                    uploads |-> 0]
  /\ MatcherIdle
  /\ SearchIdle
  /\ PureIdle
  /\ PlatformIdle

\* embed_text or collection.add of round i raises: the exception leaves the
\* loop and index_if_needed, and nothing is added in this round
EmbedFails(c) ==
  /\ Proc(c).pc = "add"
  /\ UNCHANGED collection
  /\ SetProc(c, [Proc(c) EXCEPT !.pc = "raised", !.calls = @ + 1])

\* index_resume of an uploaded resume: its cleaned text is added under its
\* id; an exception of collection.add is caught and False is returned
index_resume(rid) ==
  /\ bootstrap.uploads < MaxUploads
  /\ collection' = IF rid \in DOMAIN collection /\ bootstrap.on_duplicate = "raise"
                   THEN collection ELSE collection_add(collection, rid)
  /\ bootstrap' = [bootstrap EXCEPT !.uploads = @ + 1]
  /\ UNCHANGED <<matcher_vars, search_vars, pure_vars, platform_vars>>

PartialNext ==
  \/ \E c \in Callers : CheckExisting(c) \/ AddDocument(c) \/ CallAgain(c) \/ EmbedFails(c)
  \/ \E rid \in ResumeRids : index_resume(rid)

SpecPartial == PartialInit /\ [][PartialNext]_vars

\* ------------------------------------------------------------------------
\* The shortlists table of the platform database
\* ------------------------------------------------------------------------
ResumeIds == {1, 2}

JobIds == {1, 2}

\* SELECT ... WHERE resume_id = ? AND job_id = ?: the positions of the rows
Matching(rows, resume_id, job_id) ==
  {k \in 1..Len(rows) : rows[k].resume_id = resume_id /\ rows[k].job_id = job_id}

\* a shortlist_resume without the SELECT: it always inserts
shortlist_rows_always_insert(rows, resume_id, job_id, status) ==
  Append(rows, [id |-> Len(rows) + 1, resume_id |-> resume_id, job_id |-> job_id,
                status |-> status])

\* the table after shortlist_resume: UPDATE of the matching rows when the
\* SELECT finds one, INSERT of a new row otherwise
shortlist_rows(rows, resume_id, job_id, status) ==
  IF Matching(rows, resume_id, job_id) # {}
  THEN [k \in 1..Len(rows) |->
          IF k \in Matching(rows, resume_id, job_id)
          THEN [rows[k] EXCEPT !.status = status] ELSE rows[k]]
  ELSE Append(rows, [id |-> Len(rows) + 1, resume_id |-> resume_id, job_id |-> job_id,
                     status |-> status])

\* init_db creates the table; shortlist_calls is the record of the calls
\* made: for each pair passed, the status of the last call and how many
ShortlistInit ==
  /\ shortlists = <<>>
  /\ shortlist_calls = <<>>
  /\ MatcherIdle
  /\ SearchIdle
  /\ collection = <<>>
  /\ PureIdle
  /\ BootstrapIdle
  /\ InstanceIdle
  /\ AuthIdle
  /\ CleanIdle

TimesPassed(pair) ==
  IF pair \in DOMAIN shortlist_calls THEN shortlist_calls[pair].times ELSE 0

\* database.shortlist_resume(resume_id, job_id, status), from the routes
\* shortlist_resume and reject_resume of platform_app
shortlist_resume(resume_id, job_id, status) ==
  /\ TimesPassed(<<resume_id, job_id>>) < MaxCalls
  /\ shortlists' = shortlist_rows(shortlists, resume_id, job_id, status)
  /\ shortlist_calls' =
       [pair \in DOMAIN shortlist_calls \cup {<<resume_id, job_id>>} |->
          IF pair = <<resume_id, job_id>>
          THEN [status |-> status, times |-> TimesPassed(pair) + 1]
          ELSE shortlist_calls[pair]]
  /\ UNCHANGED <<matcher_vars, search_vars, collection, pure_vars, bootstrap, instance_vars,
                 auth_vars, clean_call>>

ShortlistNext ==
  \E resume_id \in ResumeIds, job_id \in JobIds :
    \/ shortlist_resume(resume_id, job_id, "shortlisted")
    \/ shortlist_resume(resume_id, job_id, "rejected")

SpecShortlist == ShortlistInit /\ [][ShortlistNext]_vars

\* ------------------------------------------------------------------------
\* Login of platform_app_supabase: one Supabase client for the process, one
\* Flask session for each browser
\* ------------------------------------------------------------------------
Users == {"alice", "bob"}

Browsers == {"b1", "b2"}

\* a Flask session without tokens and without user_id; "none" stands for
\* a missing key and for the client without a session
NoSession == [tokens |-> "none", user_id |-> "none"]

\* @app.before_request: the tokens of the Flask session (written as the
\* name of their user) are set on the
\* client; when set_session raises they are removed from the Flask session
restore_supabase_session(st, token_ok) ==
  IF st.cookie.tokens = "none" THEN st
  ELSE IF token_ok THEN [st EXCEPT !.client = st.cookie.tokens]
  ELSE [st EXCEPT !.cookie.tokens = "none"]

\* database.get_current_user: with tokens, set_session and get_user; without
\* tokens, get_user on the client as it is: the user of the session the
\* client holds, None when it holds none
get_current_user(st) ==
  IF st.cookie.tokens # "none"
  THEN [st EXCEPT !.client = st.cookie.tokens, !.user = st.cookie.tokens]
  ELSE [st EXCEPT !.user = st.client]

\* what a request works on: its Flask session, the client, the user found
Arrived(b) == [cookie |-> flask_session[b], client |-> supabase.session, user |-> "none"]

AuthInit ==
  /\ supabase = [session |-> "none"]
  /\ flask_session = [b \in Browsers |-> NoSession]
  /\ served = [browser |-> "none", had_tokens |-> FALSE, admitted |-> FALSE, user |-> "none"]
  /\ MatcherIdle
  /\ SearchIdle
  /\ collection = <<>>
  /\ PureIdle
  /\ BootstrapIdle
  /\ InstanceIdle
  /\ ShortlistIdle
  /\ CleanIdle

beyond_auth ==
  <<matcher_vars, search_vars, collection, pure_vars, bootstrap, instance_vars,
    shortlist_vars, clean_call>>

\* the session and the client after the wrapper of require_login has run on
\* what get_current_user found
AfterRequireLogin(st) ==
  IF st.user = "none" THEN [st EXCEPT !.cookie = NoSession]
  ELSE [st EXCEPT !.cookie.user_id = st.user]

\* a request to a route behind @require_login
require_login(b, token_ok) ==
  /\ flask_session' =
       [flask_session EXCEPT ![b] =
          AfterRequireLogin(get_current_user(
            restore_supabase_session(Arrived(b), token_ok))).cookie]
  /\ supabase' =
       [session |-> get_current_user(restore_supabase_session(Arrived(b), token_ok)).client]
  /\ served' =
       [browser |-> b,
        had_tokens |-> flask_session[b].tokens # "none",
        admitted |-> get_current_user(restore_supabase_session(Arrived(b), token_ok)).user
                       # "none",
        user |-> get_current_user(restore_supabase_session(Arrived(b), token_ok)).user]
  /\ UNCHANGED beyond_auth

\* POST /login with the credentials of user u: a session with user_id whose
\* user is found is sent to the dashboard; otherwise database.sign_in sets
\* the session on the client and stores the tokens in the Flask session
login(b, u, token_ok) ==
  /\ IF /\ flask_session[b].user_id # "none"
        /\ get_current_user(restore_supabase_session(Arrived(b), token_ok)).user # "none"
     THEN /\ flask_session' =
               [flask_session EXCEPT ![b] =
                  get_current_user(restore_supabase_session(Arrived(b), token_ok)).cookie]
          /\ supabase' =
               [session |->
                  get_current_user(restore_supabase_session(Arrived(b), token_ok)).client]
     ELSE /\ flask_session' = [flask_session EXCEPT ![b] = [tokens |-> u, user_id |-> u]]
          /\ supabase' = [session |-> u]
  /\ UNCHANGED <<served, beyond_auth>>

\* /logout: sign_out on the client, the keys of the Flask session removed
logout(b) ==
  /\ flask_session' = [flask_session EXCEPT ![b] = NoSession]
  /\ supabase' = [session |-> "none"]
  /\ UNCHANGED <<served, beyond_auth>>

AuthNext ==
  \E b \in Browsers :
    \/ \E token_ok \in BOOLEAN : require_login(b, token_ok)
    \/ \E u \in Users, token_ok \in BOOLEAN : login(b, u, token_ok)
    \/ logout(b)

SpecAuth == AuthInit /\ [][AuthNext]_vars

\* ------------------------------------------------------------------------
\* The matcher object education_matcher, shared by the threads of the server
\* ------------------------------------------------------------------------
\* What find_education_matches reads of a text, with the pattern table of
\* the object
ScanWith(patterns, t) ==
  ScanRecord(extract_education_section(t),
             [level \in DOMAIN patterns |-> KeywordsOf(patterns[level], 1, lower(t))] @@ <<>>)

\* self.education_hierarchy.get(level, 0)
HierarchyOf(hierarchy, level) == IF level \in DOMAIN hierarchy THEN hierarchy[level] ELSE 0

\* matches.sort(key=..., reverse=True) with the hierarchy of the object
RECURSIVE SortWith(_, _, _)
SortWith(hierarchy, matches, key) ==
  IF key < 0 THEN <<>>
  ELSE SelectSeq(matches, LAMBDA m : HierarchyOf(hierarchy, m.level) = key)
         \o SortWith(hierarchy, matches, key - 1)

\* lines 177-193 of get_highest_education
HighestWith(hierarchy, matches) ==
  IF matches = <<>> THEN <<>>
  ELSE IF Len(matches) > 1
  THEN ConfidentOrFirst(SortWith(hierarchy, matches, 3),
                        FirstConfident(SortWith(hierarchy, matches, 3), 1))
  ELSE <<matches[1]>>

\* a method that stores a reversed hierarchy in the object
MatcherAfterCall_hierarchy_reversed(self) ==
  [self EXCEPT !.education_hierarchy = [level \in DOMAIN @ |-> 4 - @[level]]]

\* the object after a step of a method: no method assigns to
\* self.education_patterns or self.education_hierarchy
MatcherAfterCall(self) == self

MatcherMethods ==
  {"get_highest_education", "strict_education_filter", "get_education_keywords_found"}

InstanceTexts == {Assemble(<<F_PhD_dotted, F_mba>>, <<" ">>, 1), F_btech}

InstanceLevels == {<<>>, <<L_phd, L_masters>>}

NoFrame ==
  [pc |-> "idle", method |-> "", text |-> <<>>, target_levels |-> <<>>,
   matches |-> <<>>, highest |-> <<>>, calls |-> 0]

\* the module creates one matcher; no thread is in a call
InstanceInit ==
  /\ education_matcher =
       [education_patterns |-> education_patterns, education_hierarchy |-> education_hierarchy]
  /\ matcher_calls = [frames |-> [c \in Callers |-> NoFrame], returned |-> {}]
  /\ MatcherIdle
  /\ SearchIdle
  /\ collection = <<>>
  /\ PureIdle
  /\ BootstrapIdle
  /\ ShortlistIdle
  /\ AuthIdle
  /\ CleanIdle

Frame(c) == matcher_calls.frames[c]

beyond_instance ==
  <<matcher_vars, search_vars, collection, pure_vars, bootstrap, shortlist_vars, auth_vars,
    clean_call>>

\* a thread calls a method of the matcher
CallMethod(c) ==
  /\ Frame(c).pc \in {"idle", "returned"}
  /\ Frame(c).calls < MaxCalls
  /\ \E method \in MatcherMethods, text \in InstanceTexts, target_levels \in InstanceLevels :
       matcher_calls' =
         [matcher_calls EXCEPT !.frames[c] =
            [pc |-> "find", method |-> method, text |-> text, target_levels |-> target_levels,
             matches |-> <<>>, highest |-> <<>>, calls |-> Frame(c).calls + 1]]
  /\ UNCHANGED <<education_matcher, beyond_instance>>

\* find_education_matches, into the local list of the call
FindMatches(c) ==
  /\ Frame(c).pc = "find"
  /\ matcher_calls' =
       [matcher_calls EXCEPT
          !.frames[c].pc = "select",
          !.frames[c].matches =
            MatchLoop(IF Frame(c).target_levels # <<>> THEN Frame(c).target_levels
                      ELSE DefaultLevels,
                      1, ScanWith(education_matcher.education_patterns, Frame(c).text), <<>>)]
  /\ education_matcher' = MatcherAfterCall(education_matcher)
  /\ UNCHANGED beyond_instance

\* the rest of get_highest_education; the method returns, and what
\* get_highest_education found for its arguments is put on record
SelectHighest(c) ==
  /\ Frame(c).pc = "select"
  /\ matcher_calls' =
       [matcher_calls EXCEPT
          !.frames[c].pc = "returned",
          !.frames[c].highest =
            HighestWith(education_matcher.education_hierarchy, Frame(c).matches),
          !.returned = @ \cup
            {[text |-> Frame(c).text, target_levels |-> Frame(c).target_levels,
              highest |-> HighestWith(education_matcher.education_hierarchy,
                                      Frame(c).matches)]}]
  /\ education_matcher' = MatcherAfterCall(education_matcher)
  /\ UNCHANGED beyond_instance

InstanceNext == \E c \in Callers : CallMethod(c) \/ FindMatches(c) \/ SelectHighest(c)

SpecInstance == InstanceInit /\ [][InstanceNext]_vars

\* ------------------------------------------------------------------------
\* clean_resume_text, and the matcher on the text it produces
\* ------------------------------------------------------------------------
\* re.sub(r'\s+', ' ', text): each run of whitespace becomes one space
RECURSIVE CollapseFrom(_, _)
CollapseFrom(text, i) ==
  IF i > Len(text) THEN <<>>
  ELSE IF text[i] \notin Whitespace THEN <<text[i]>> \o CollapseFrom(text, i + 1)
  ELSE IF i > 1 /\ text[i - 1] \in Whitespace THEN CollapseFrom(text, i + 1)
  ELSE <<" ">> \o CollapseFrom(text, i + 1)

\* re.sub(r'[^\w\s.,]', '', text)
KeepWordsAndPunctuation(text) ==
  SelectSeq(text, LAMBDA ch : ch \in WordChars \cup Whitespace \cup {".", ","})

\* a cleaner that leaves the line breaks in
clean_resume_text_keeps_lines(text) == strip(KeepWordsAndPunctuation(text))

clean_resume_text(text) == strip(KeepWordsAndPunctuation(CollapseFrom(text, 1)))

R_Education == <<"E","d","u","c","a","t","i","o","n",":">>
R_Work_history == <<"W","o","r","k","-","h","i","s","t","o","r","y">>

RawPieces == {R_Education, R_Work_history, F_phd, F_PhD_dotted, F_mba, F_btech}

RawSeparators == {<<" ">>, <<"\n">>, <<"\t","\n">>, <<" ","|"," ">>}

RECURSIVE AssembleRaw(_, _, _)
AssembleRaw(pieces, seps, i) ==
  IF i > Len(pieces) THEN <<>>
  ELSE IF i = Len(pieces) THEN pieces[i]
  ELSE pieces[i] \o seps[i] \o AssembleRaw(pieces, seps, i + 1)

\* extracted documents of at most MaxFrags pieces
RawTexts ==
  UNION { { AssembleRaw(pieces, seps, 1) :
              pieces \in [1..n -> RawPieces], seps \in [1..(n - 1) -> RawSeparators] }
          : n \in 0..MaxFrags }

CleanInit ==
  /\ \E raw \in RawTexts :
       clean_call = [raw |-> raw, pc |-> "clean", cleaned |-> <<>>, section |-> <<>>,
                     matches |-> <<>>]
  /\ MatcherIdle
  /\ SearchIdle
  /\ collection = <<>>
  /\ PureIdle
  /\ BootstrapIdle
  /\ InstanceIdle
  /\ ShortlistIdle
  /\ AuthIdle

beyond_clean ==
  <<matcher_vars, search_vars, collection, pure_vars, bootstrap, instance_vars,
    shortlist_vars, auth_vars>>

\* cleaned_text = clean_resume_text(text)
CleanText ==
  /\ clean_call.pc = "clean"
  /\ clean_call' = [clean_call EXCEPT !.pc = "extract", !.cleaned = clean_resume_text(clean_call.raw)]
  /\ UNCHANGED beyond_clean

\* extract_education_section on the cleaned text
ExtractFromCleaned ==
  /\ clean_call.pc = "extract"
  /\ clean_call' = [clean_call EXCEPT !.pc = "match",
                                      !.section = extract_education_section(clean_call.cleaned)]
  /\ UNCHANGED beyond_clean

\* find_education_matches on the cleaned text, for the default levels
MatchCleaned ==
  /\ clean_call.pc = "match"
  /\ clean_call' =
       [clean_call EXCEPT !.pc = "done",
                          !.matches = MatchLoop(DefaultLevels, 1,
                                                ScanWith(education_patterns, clean_call.cleaned),
                                                <<>>)]
  /\ UNCHANGED beyond_clean

CleanNext == CleanText \/ ExtractFromCleaned \/ MatchCleaned

SpecClean == CleanInit /\ [][CleanNext]_vars

\* ------------------------------------------------------------------------
\* Properties of the matcher, checked under SpecMatcher
\* ------------------------------------------------------------------------
\* the three calls of the test case have returned
Returned == pc = "done"

\* the matches of the test case, and the largest ordinal among a set of them
CaseMatches == find_education_matches(tc_text, tc_levels)

MaxOrdinal(ms) ==
  CHOOSE o \in {HierarchyGet(m.level) : m \in ms} :
    \A m \in ms : HierarchyGet(m.level) <= o

\* some pattern of the level matches the lower-cased text
HasSurfaceForm(t, level) == TextScan[t].keywords_found[level] # <<>>

\* C1: for every text and every non-empty list of target levels,
\* get_highest_education returns None or exactly one match (one level of the
\* pattern table with one confidence in [0,1]), never a collection of matches.
C1_AtMostOneMatch ==
  (Returned /\ tc_levels # <<>>) =>
    /\ Len(highest_result) <= 1
    /\ \A i \in 1..Len(highest_result) :
         /\ highest_result[i].level \in DOMAIN education_patterns
         /\ highest_result[i].confidence \in 0..10

\* the text has forms of two levels, the target list repeats a level so that
\* two matches are found, and one match came back
C1_Witness ==
  /\ pc = "done"
  /\ Len(tc_levels) = 2 /\ tc_levels[1] = tc_levels[2]
  /\ Len(CaseMatches) > 1
  /\ HasSurfaceForm(tc_text, L_phd) /\ HasSurfaceForm(tc_text, L_bachelors)
  /\ Len(highest_result) = 1

\* C2: zero matches give None; exactly one match is returned whatever its
\* confidence; of several matches the one of the highest ordinal among those
\* with confidence > 0.6 is returned, and the one of the highest ordinal of
\* all when none exceeds 0.6.
C2_ConflictResolution ==
  Returned =>
    LET matches == CaseMatches
        ms == {matches[i] : i \in 1..Len(matches)}
        confident == {m \in ms : m.confidence > 6}
    IN  /\ (Len(matches) = 0) => highest_result = <<>>
        /\ (Len(matches) = 1) => highest_result = <<matches[1]>>
        /\ (Len(matches) > 1) =>
             /\ Len(highest_result) = 1
             /\ highest_result[1] \in ms
             /\ (confident # {}) =>
                  /\ highest_result[1] \in confident
                  /\ HierarchyGet(highest_result[1].level) = MaxOrdinal(confident)
             /\ (confident = {}) =>
                  HierarchyGet(highest_result[1].level) = MaxOrdinal(ms)

\* two levels match, the higher one with confidence <= 0.6 and the lower one
\* above it: the lower one is returned
C2_Witness ==
  /\ pc = "done"
  /\ Len(CaseMatches) = 2
  /\ \E i, j \in 1..2 :
       /\ HierarchyGet(CaseMatches[i].level) > HierarchyGet(CaseMatches[j].level)
       /\ CaseMatches[i].confidence <= 6
       /\ CaseMatches[j].confidence > 6
       /\ highest_result = <<CaseMatches[j]>>

\* C3: for every text with a surface form of phd and a surface form of
\* bachelors, get_highest_education(text, ["phd", "bachelors"]) returns the
\* phd match.
C3_HierarchyCorrectness ==
  (/\ Returned
   /\ tc_levels = <<L_phd, L_bachelors>>
   /\ HasSurfaceForm(tc_text, L_phd)
   /\ HasSurfaceForm(tc_text, L_bachelors)) =>
    (Len(highest_result) = 1 /\ highest_result[1].level = L_phd)

\* C4: strict_education_filter is true iff get_highest_education is not None
\* and its level is in the lower-cased target list; with no match it is false.
C4_StrictFilterIff ==
  Returned =>
    /\ filter_result =
         (/\ highest_result # <<>>
          /\ highest_result[1].level \in {lower(tc_levels[i]) : i \in 1..Len(tc_levels)})
    /\ (CaseMatches = <<>>) => (filter_result = FALSE)

\* a level requested in upper and in lower case: the match of the lower-case
\* name is in the lower-cased list and the filter is true
C4_Witness ==
  /\ pc = "done"
  /\ tc_levels = <<L_PhD, L_phd>>
  /\ highest_result # <<>>
  /\ highest_result[1].level = L_phd
  /\ filter_result = TRUE

\* the level get_highest_education reports when every level is scanned
DominantLevel(t) == get_highest_education(t, DefaultLevels)

\* C5: strict_education_filter accepts a text only when a requested level is
\* the dominant level of the text, which makes it stricter than the test
\* "some pattern of some requested level matches".
C5_OnlyDominantLevelPasses ==
  (Returned /\ filter_result) =>
    /\ DominantLevel(tc_text) # <<>>
    /\ DominantLevel(tc_text)[1].level \in {lower(tc_levels[i]) : i \in 1..Len(tc_levels)}

\* the words that every phd surface form of the pattern table contains
PhdStems ==
  { <<"p","h","d">>, <<"p","h",".","d">>, <<"d","o","c","t","o","r">>,
    <<"d",".","p","h","i","l">>, <<"d","p","h","i","l">> }

NoPhdForm(t) == \A stem \in PhdStems : ~Contains(lower(t), stem)

\* C6: for every text without a phd surface form,
\* strict_education_filter(text, ["phd"]) is false, whatever bachelors or
\* masters forms, intact or broken by spaces, the text contains.
C6_NoFalsePhd ==
  (Returned /\ tc_levels = <<L_phd>> /\ NoPhdForm(tc_text)) => (filter_result = FALSE)

\* a text with an intact and a space-broken bachelors form, asked for phd
C6_Witness ==
  /\ pc = "done"
  /\ tc_levels = <<L_phd>>
  /\ NoPhdForm(tc_text)
  /\ HasSurfaceForm(tc_text, L_bachelors)
  /\ Contains(tc_text, F_BTech_broken)
  /\ filter_result = FALSE

\* ------------------------------------------------------------------------
\* Properties of the search endpoints, checked under SpecSearch
\* ------------------------------------------------------------------------
Responded(route) == search_pc = "responded" /\ http_request.route = route

\* the request is an education query that reached the index: the endpoint of
\* enhanced_web_app, or the search page with search_type "education"
EducationQuery ==
  /\ search_pc = "responded"
  /\ \/ http_request.route = "/api/search/education"
     \/ /\ http_request.route = "/search"
        /\ http_request.logged_in
        /\ http_request.method = "POST"
        /\ http_request.form.search_type = "education"
        /\ ParseList(strip(http_request.form.education)) # <<>>

\* the levels an education query asks for
QueryLevels ==
  IF http_request.route = "/search"
  THEN ParseList(strip(http_request.form.education))
  ELSE ParseList(strip(http_request.form.levels))

PassesFilter(rid) == strict_education_filter(DocOf(rid), QueryLevels)

SomeCandidatePasses == \E i \in 1..Len(candidates) : PassesFilter(candidates[i].rid)

\* the position of an id in the candidate pool
PoolPos(rid) == CHOOSE i \in 1..Len(candidates) : candidates[i].rid = rid

InPool(rid) == \E i \in 1..Len(candidates) : candidates[i].rid = rid

\* C7: in an education query where some candidate of the pool passes
\* strict_education_filter, every returned candidate passes the filter and
\* the response is tagged as the keyword-match path.
C7_FilteredPath ==
  (EducationQuery /\ SomeCandidatePasses) =>
    /\ \A i \in 1..Len(http_response.results) : PassesFilter(http_response.results[i].id)
    /\ http_response.search_type.text = KeywordMatch

\* C8: when no candidate of a non-empty pool passes strict_education_filter,
\* the education endpoint returns the TopK best of the whole pool by
\* (1 - dist) + 0.4 * score_education, never an empty list, under a tag
\* that differs from the tag of the keyword-match path.
C8_FallbackPath ==
  (Responded("/api/search/education") /\ candidates # <<>> /\ ~SomeCandidatePasses) =>
    LET results == http_response.results
        Composite(c) == (1000 - c.dist) + 40 * score_education(c.doc, QueryLevels)
        returned == {results[i].id : i \in 1..Len(results)}
    IN  /\ results # <<>>
        /\ Len(results) = Min(TopK, Len(candidates))
        /\ Cardinality(returned) = Len(results)
        /\ \A i \in 1..Len(results) :
             /\ InPool(results[i].id)
             /\ results[i].score = Composite(candidates[PoolPos(results[i].id)])
        /\ \A i \in 1..(Len(results) - 1) : results[i].score >= results[i + 1].score
        /\ \A j \in 1..Len(candidates) :
             candidates[j].rid \notin returned =>
               Composite(candidates[j]) <= results[Len(results)].score
        /\ http_response.search_type.text = SemanticFallback
        /\ http_response.search_type.text # KeywordMatch

\* more than TopK candidates, none passing the filter: TopK of them come
\* back under the fallback tag, led by a candidate other than the nearest
C8_Witness ==
  /\ Responded("/api/search/education")
  /\ Len(candidates) > TopK
  /\ ~SomeCandidatePasses
  /\ Len(http_response.results) = TopK
  /\ http_response.results[1].id # candidates[1].rid
  /\ http_response.search_type.text = SemanticFallback

\* the skills and the years a skills query asks for
QuerySkills == ParseList(strip(http_request.form.skills))

QueryYears == ParseYears(strip(http_request.form.years))

\* C9: the score of a returned candidate is (1 - dist) + 0.3 * skill score
\* for a skills query and (1 - dist) + 0.4 * education score for an
\* education query, and results come in descending order of it; JD and
\* general queries return the pool in the order of the index with
\* 1 - dist alone.  So a candidate of similarity 0.5 and skill score 2.0
\* (1.1) comes before one of similarity 0.9 and skill score 0 (0.9).
C9_CompositeScore ==
  LET results == http_response.results
      Cand(i) == candidates[PoolPos(results[i].id)]
  IN  /\ Responded("/api/search/skills") =>
           /\ \A i \in 1..Len(results) :
                /\ InPool(results[i].id)
                /\ results[i].similarity = 1000 - Cand(i).dist
                /\ 2 * (results[i].score - results[i].similarity) =
                     300 * score_skills_and_experience(Cand(i).doc, QuerySkills, QueryYears)
           /\ \A i \in 1..(Len(results) - 1) : results[i].score >= results[i + 1].score
      /\ Responded("/api/search/education") =>
           /\ \A i \in 1..Len(results) :
                /\ InPool(results[i].id)
                /\ results[i].similarity = 1000 - Cand(i).dist
                /\ 10 * (results[i].score - results[i].similarity) =
                     400 * score_education(Cand(i).doc, QueryLevels)
           /\ \A i \in 1..(Len(results) - 1) : results[i].score >= results[i + 1].score
      /\ (Responded("/api/search/jd") \/ Responded("/api/search/general")) =>
           /\ Len(results) = Len(candidates)
           /\ \A i \in 1..Len(results) :
                /\ results[i].id = candidates[i].rid
                /\ results[i].similarity = 1000 - candidates[i].dist
                /\ "score" \notin DOMAIN results[i]

\* a skills query whose pool holds a candidate of similarity 0.9 and skill
\* score 0 ahead of one of similarity 0.5 and skill score 2.0: the second
\* is returned first, with 1.1 against 0.9
C9_Witness ==
  /\ Responded("/api/search/skills")
  /\ \E i, j \in 1..Len(http_response.results) :
       LET a == http_response.results[i]
           b == http_response.results[j]
       IN  /\ i < j
           /\ PoolPos(a.id) > PoolPos(b.id)
           /\ a.similarity = 500 /\ a.score = 1100
           /\ score_skills_and_experience(DocOf(a.id), QuerySkills, QueryYears) = 4
           /\ b.similarity = 900 /\ b.score = 900
           /\ score_skills_and_experience(DocOf(b.id), QuerySkills, QueryYears) = 0

\* C10: the results of the re-ranking endpoints are in descending order of
\* score, and results of equal score are in the order they had in the
\* candidate pool.
C10_StableDescending ==
  (Responded("/api/search/skills") \/ Responded("/api/search/education")) =>
    \A i, j \in 1..Len(http_response.results) :
      i < j =>
        /\ http_response.results[i].score >= http_response.results[j].score
        /\ (http_response.results[i].score = http_response.results[j].score) =>
             PoolPos(http_response.results[i].id) < PoolPos(http_response.results[j].id)

\* C11: every query returns at most TopK (5) candidates, at every entry
\* point: the endpoints of enhanced_web_app and the search page of
\* platform_app that calls the engine functions.
C11_AtMostFive ==
  search_pc = "responded" => Len(http_response.results) <= TopK

\* ------------------------------------------------------------------------
\* Properties of calculate_confidence and extract_education_section,
\* checked under SpecMatcher
\* ------------------------------------------------------------------------
StrongKeywords ==
  { <<"p","h","d">>, <<"d","o","c","t","o","r","a","t","e">>, <<"m","a","s","t","e","r","s">>,
    <<"m","b","a">>, <<"b","t","e","c","h">>, <<"b","a","c","h","e","l","o","r">> }

KeywordSet(m) == {m.keywords_found[k] : k \in 1..Len(m.keywords_found)}

\* the confidence the claim states for a match, in tenths, before the clamp
StatedConfidence(m) ==
  5 + (IF \E kw \in KeywordSet(m) : Contains(lower(m.context), kw) THEN 3 ELSE 0)
    + (IF KeywordSet(m) \cap StrongKeywords # {} THEN 2 ELSE 0)
    - (IF Contains(lower(m.context), W_experience) \/ Contains(lower(m.context), W_work)
       THEN 1 ELSE 0)

Clamp(c) == IF c < 0 THEN 0 ELSE IF c > 10 THEN 10 ELSE c

\* C12: the confidence of every match is 0.5, plus 0.3 if a matched keyword
\* occurs in the education section, plus 0.2 if a matched keyword is one of
\* phd, doctorate, masters, mba, btech, bachelor, minus 0.1 if the section
\* contains "experience" or "work", clamped to [0,1]; it is within [0,1].
C12_ConfidenceFormula ==
  Returned =>
    /\ \A i \in 1..Len(CaseMatches) :
         /\ CaseMatches[i].confidence = Clamp(StatedConfidence(CaseMatches[i]))
         /\ CaseMatches[i].confidence \in 0..10
    /\ highest_result # <<>> =>
         highest_result[1].confidence = Clamp(StatedConfidence(highest_result[1]))

\* a match with all three adjustments: a strong keyword inside a section
\* that contains "work", with confidence 0.5 + 0.3 + 0.2 - 0.1 = 0.9
C12_Witness ==
  /\ Returned
  /\ highest_result # <<>>
  /\ highest_result[1].confidence = 9
  /\ Contains(lower(highest_result[1].context), W_work)
  /\ \E kw \in KeywordSet(highest_result[1]) :
       kw \in StrongKeywords /\ Contains(lower(highest_result[1].context), kw)

\* ------------------------------------------------------------------------
\* Properties of extract_education_section, checked under SpecExtract
\* ------------------------------------------------------------------------
Extracted == extract_call # <<>> /\ extract_call.pc = "returned"

\* the lines of the text of the call
CallLines == split(extract_call.text, "\n")

IsStartLine(i) == AnyIn(education_keywords, lower(CallLines[i]))

IsTerminatorLine(i) == AnyIn(section_terminators, lower(CallLines[i]))

StartLines == {i \in 1..Len(CallLines) : IsStartLine(i)}

\* the first line with a start keyword
FirstStart == CHOOSE i \in StartLines : \A j \in StartLines : i <= j

\* the terminator lines after the first start line
TerminatorsAfterStart == {j \in (FirstStart + 1)..Len(CallLines) : IsTerminatorLine(j)}

FirstTerminator == CHOOSE j \in TerminatorsAfterStart : \A k \in TerminatorsAfterStart : j <= k

\* the position in the text of the first character of line i
RECURSIVE LineStart(_)
LineStart(i) == IF i = 1 THEN 1 ELSE LineStart(i - 1) + Len(CallLines[i - 1]) + 1

\* the text of lines i..j, with the line feeds between them
LineRange(i, j) == SubSeq(extract_call.text, LineStart(i), LineStart(j) + Len(CallLines[j]) - 1)

\* C13: the section is the range of lines from the first line with a start
\* keyword to the line before the first later line with a terminator
\* keyword; no line at or after that terminator line is in it, even when
\* the terminator line also holds a start keyword.
C13_SectionRange ==
  (Extracted /\ StartLines # {} /\ TerminatorsAfterStart # {}) =>
    extract_call.section = LineRange(FirstStart, FirstTerminator - 1)

\* C14: without a start keyword the section is empty; when the first line
\* with a start keyword is the last line, the section is that line; when no
\* terminator line follows it, the section is the text from that line to the
\* end.
C14_SectionEdgeCases ==
  Extracted =>
    /\ StartLines = {} => extract_call.section = <<>>
    /\ (StartLines # {} /\ FirstStart = Len(CallLines)) =>
         extract_call.section = CallLines[Len(CallLines)]
    /\ (StartLines # {} /\ TerminatorsAfterStart = {}) =>
         extract_call.section =
           SubSeq(extract_call.text, LineStart(FirstStart), Len(extract_call.text))

\* a header on the second of three lines and no terminator after it: the
\* section is the last two lines
C14_Witness ==
  /\ Extracted
  /\ Len(CallLines) = 3
  /\ StartLines = {2}
  /\ TerminatorsAfterStart = {}
  /\ extract_call.section = CallLines[2] \o <<"\n">> \o CallLines[3]

\* ------------------------------------------------------------------------
\* Properties of score_skills_and_experience, checked under SpecScore
\* ------------------------------------------------------------------------
Scored == score_call # <<>> /\ score_call.pc = "returned"

ScoredText == lower(score_call.text)

AllIn(s, from, to, chars) == \A i \in from..to : s[i] \in chars

\* one of years, yrs, year at position b, followed by no word character
YearsWordAt(s, b) ==
  \E w \in {<<"y","e","a","r","s">>, <<"y","r","s">>, <<"y","e","a","r">>} :
    /\ b + Len(w) - 1 <= Len(s)
    /\ SubSeq(s, b, b + Len(w) - 1) = w
    /\ CharAt(s, b + Len(w)) \notin WordChars

\* digits at p..e-1, white space, an optional "+", white space and the word
YearsStatedAt(s, p, e) ==
  /\ p < e
  /\ AllIn(s, p, e - 1, Digits)
  /\ \E a \in e..(Len(s) + 1) :
       /\ AllIn(s, e, a - 1, Whitespace)
       /\ \/ YearsWordAt(s, a)
          \/ /\ CharAt(s, a) = "+"
             /\ \E b \in (a + 1)..(Len(s) + 1) :
                  AllIn(s, a + 1, b - 1, Whitespace) /\ YearsWordAt(s, b)

\* the integers of all the matches of the years pattern in s
YearsStated(s) ==
  {ParseInt(SubSeq(s, pe[1], pe[2] - 1)) :
     pe \in {q \in (1..Len(s)) \X (1..(Len(s) + 1)) : YearsStatedAt(s, q[1], q[2])}}

\* the largest of them, 0 when there is none
StatedExperience(s) ==
  IF YearsStated(s) = {} THEN 0
  ELSE CHOOSE y \in YearsStated(s) : \A z \in YearsStated(s) : z <= y

\* C15: the score is 1.0 for each required skill whose lower-cased form is
\* a substring of the lower-cased text, plus 0.5 if the largest integer of
\* the matches of the years pattern (<digits> [+] years|yrs|year), 0 when
\* the text states no years, is at least min_years; nothing caps it.
C15_SkillScore ==
  Scored =>
    score_call.score =
      2 * Cardinality({i \in 1..Len(score_call.required_skills) :
                         Contains(ScoredText, lower(score_call.required_skills[i]))})
        + (IF StatedExperience(ScoredText) >= score_call.min_years THEN 1 ELSE 0)

\* two skills found in a text that states 3+ yrs and 7 years, with
\* min_years 7: 1.0 + 1.0 + 0.5
C15_Witness ==
  /\ Scored
  /\ score_call.required_skills = <<S_python, K_JAVA>>
  /\ YearsStated(ScoredText) = {3, 7}
  /\ score_call.min_years = 7
  /\ score_call.score = 5

\* ------------------------------------------------------------------------
\* Properties of the requests, checked under SpecSearch
\* ------------------------------------------------------------------------
\* the request reached a search: an endpoint of enhanced_web_app, or the
\* search page posted by a logged-in user
SearchRequest ==
  \/ http_request.route # "/search"
  \/ http_request.logged_in /\ http_request.method = "POST"

\* the kind of query of the request
QueryKind ==
  IF http_request.route = "/api/search/jd" THEN "jd"
  ELSE IF http_request.route = "/api/search/skills" THEN "skills"
  ELSE IF http_request.route = "/api/search/education" THEN "education"
  ELSE IF http_request.route = "/api/search/general" THEN "general"
  ELSE http_request.form.search_type

\* the text of the query, as the caller sent it
QueryText ==
  IF QueryKind = "jd" THEN http_request.form.jd
  ELSE IF QueryKind = "skills" THEN http_request.form.skills
  ELSE IF QueryKind = "general" THEN http_request.form.q
  ELSE IF http_request.route = "/search" THEN http_request.form.education
  ELSE http_request.form.levels

\* C16: a query of any kind whose text is empty or white space returns no
\* results, and the index was not queried for it.
C16_EmptyQuery ==
  (search_pc = "responded" /\ SearchRequest
     /\ \A i \in 1..Len(QueryText) : QueryText[i] \in Whitespace) =>
    /\ http_response.results = <<>>
    /\ index_calls = 0

\* the first integer found in a string, 0 when it holds no digit
StatedInteger(s) ==
  IF \A i \in 1..Len(s) : s[i] \notin Digits THEN 0
  ELSE LET p == CHOOSE i \in 1..Len(s) :
                  s[i] \in Digits /\ \A j \in 1..(i - 1) : s[j] \notin Digits
           e == CHOOSE k \in p..Len(s) :
                  /\ \A j \in p..k : s[j] \in Digits
                  /\ CharAt(s, k + 1) \notin Digits
       IN  ParseInt(SubSeq(s, p, e))

\* C17: at every entry point that takes the years field, the handler scores
\* with the first integer found in the field, 0 when there is none: each
\* returned score is (1 - dist) + 0.3 * the skill score for that minimum.
C17_YearsParsed ==
  (search_pc = "responded" /\ SearchRequest /\ QueryKind = "skills") =>
    \A i \in 1..Len(http_response.results) :
      2 * (http_response.results[i].score - http_response.results[i].similarity) =
        300 * score_skills_and_experience(DocOf(http_response.results[i].id), QuerySkills,
                                          StatedInteger(http_request.form.years))

\* the caller of a general query asked for the notes
NotesAskedFor == QueryKind = "general" /\ lower(http_request.form.include_notes) = S_y

\* C18: a JD, skills or education query, and a general query whose caller
\* did not set include_notes, gets no interview note from the index and
\* returns none.
C18_NotesExcluded ==
  (search_pc = "responded" /\ ~NotesAskedFor) =>
    /\ \A i \in 1..Len(candidates) : candidates[i].meta.type = "resume"
    /\ \A i \in 1..Len(http_response.results) : http_response.results[i].type = "resume"

\* a JD query against an index that holds a note: every resume of the index
\* is returned, fewer than the five asked for, and the note is not
C18_Witness ==
  /\ search_pc = "responded"
  /\ http_request.route = "/api/search/jd"
  /\ DOMAIN collection \cap NoteRids # {}
  /\ http_response.results # <<>>
  /\ Len(http_response.results) < TopK
  /\ {http_response.results[i].id : i \in 1..Len(http_response.results)} =
       DOMAIN collection \cap ResumeRids

\* ------------------------------------------------------------------------
\* Properties of index_if_needed, checked under SpecBootstrap
\* ------------------------------------------------------------------------
SourceIds == {load_documents[k] : k \in 1..Len(load_documents)}

\* C19: a call of index_if_needed against an index that holds at least one
\* entry makes no insert and leaves the index as it was: the step that
\* reads the index ends the call.
C19_IdempotentIndexing ==
  [][\A c \in Callers :
       (Proc(c).pc = "start" /\ DOMAIN collection # {} /\ bootstrap'.procs[c] # Proc(c)) =>
         /\ collection' = collection
         /\ bootstrap'.procs[c].pc = "done"
         /\ bootstrap'.procs[c].adds = Proc(c).adds]_vars

\* a process that indexed every document in its first call has called a
\* second time and returned without another insert
C19_Witness ==
  \E c \in Callers :
    /\ Proc(c).pc = "done"
    /\ Proc(c).calls = 2
    /\ Proc(c).adds = Len(load_documents)
    /\ Proc(c).existing = SourceIds
    /\ \A id \in SourceIds : collection[id] = 1

FinishedFirstCall(c) == Proc(c).pc \in {"done", "raised"} /\ Proc(c).calls = 1

quick_education_patterns ==
  [level \in DOMAIN education_patterns |-> <<education_patterns[level][1]>>]

\* the loop of QuickEducationMatcher.get_highest_education: a level is a
\* match when its pattern finds something; the confidence is always 0.8
RECURSIVE QuickMatchLoop(_, _, _, _)
QuickMatchLoop(levels_to_check, i, text_lower, matches) ==
  IF i > Len(levels_to_check) THEN matches
  ELSE IF levels_to_check[i] \notin DOMAIN quick_education_patterns
  THEN QuickMatchLoop(levels_to_check, i + 1, text_lower, matches)
  ELSE IF KeywordsOf(quick_education_patterns[levels_to_check[i]], 1, text_lower) # <<>>
  THEN QuickMatchLoop(levels_to_check, i + 1, text_lower,
         Append(matches,
           [level |-> levels_to_check[i],
            confidence |-> 8,
            keywords_found |->
              KeywordsOf(quick_education_patterns[levels_to_check[i]], 1, text_lower)]))
  ELSE QuickMatchLoop(levels_to_check, i + 1, text_lower, matches)

\* the matches sorted by hierarchy, highest first, and the first of them
QuickFirst(matches) ==
  IF matches = <<>> THEN <<>> ELSE <<SortByHierarchy(matches)[1]>>

quick_get_highest_education(text, target_levels) ==
  QuickFirst(QuickMatchLoop(IF target_levels # <<>> THEN target_levels ELSE DefaultLevels,
                            1, lower(text), <<>>))

\* the level a matcher selected, <<>> when it found none
LevelOf(highest_education) ==
  IF highest_education = <<>> THEN <<>> ELSE highest_education[1].level

\* C21: for the same text and target levels every call site selects the same
\* dominant level and yields the same education score: the level chosen by
\* QuickEducationMatcher is the level chosen by EnhancedEducationMatcher, and
\* the score of hiresight_engine.score_education (in points) is the score of
\* enhanced_web_app.score_education (in tenths of a point).
C21_OnePolicy ==
  Returned =>
    /\ LevelOf(quick_get_highest_education(tc_text, tc_levels)) = LevelOf(highest_result)
    /\ 10 * engine_score_education(tc_text, tc_levels) = score_education(tc_text, tc_levels)

\* the forms of a level that the co-mention cases name
W_mtech == <<"m","t","e","c","h">>
W_masters == <<"m","a","s","t","e","r","s">>
W_b_sc == <<"b",".","s","c">>

CoMentionForms ==
  (L_phd :> {F_phd}) @@ (L_masters :> {W_mtech, W_masters}) @@
  (L_bachelors :> {F_btech, W_b_sc})

Mentions(t, level) == \E w \in CoMentionForms[level] : Contains(lower(t), w)

\* the text mentions the level, some lower level and no higher level
CoMentioned(t, level) ==
  /\ Mentions(t, level)
  /\ \E lo \in DOMAIN CoMentionForms :
       HierarchyGet(lo) < HierarchyGet(level) /\ Mentions(t, lo)
  /\ \A hi \in DOMAIN CoMentionForms :
       HierarchyGet(hi) > HierarchyGet(level) => ~Mentions(t, hi)

\* C22: for a text that holds a form of level L together with forms of lower
\* levels only ("Mtech ... Btech" or "Masters ... B.Sc" with L = masters,
\* "PhD ... Masters" with L = phd), strict_education_filter(text, [L]) is
\* true and get_highest_education(text, [L]) has level L.
C22_CoMentionDetected ==
  \A level \in DOMAIN CoMentionForms :
    (Returned /\ tc_levels = <<level>> /\ CoMentioned(tc_text, level)) =>
      filter_result /\ LevelOf(highest_result) = level

\* C23: for the text of the "B.T ech" test case the highest level reported
\* is bachelors, with the default levels and with target_levels = ["phd"],
\* where the strict filter is false.
C23_BrokenSpelling ==
  (Returned /\ tc_text = T_BTech_only /\ tc_levels \in {<<>>, <<L_phd>>}) =>
    /\ LevelOf(highest_result) = L_bachelors
    /\ (tc_levels = <<L_phd>>) => ~filter_result

\* a match of the alternatives starts at position q of s and is the word kw
MatchedAt(alts, s, q, kw) ==
  /\ SubSeq(s, q, q + Len(kw) - 1) = kw
  /\ WordBoundary(s, q)
  /\ MatchAlts(alts, 1, s, q) = q + Len(kw)

\* some pattern of the level matches the word kw somewhere in s
MatchedInLower(s, level, kw) ==
  /\ level \in DOMAIN education_patterns
  /\ \E k \in 1..Len(education_patterns[level]) :
       \E q \in 1..(Len(s) - Len(kw) + 1) : MatchedAt(education_patterns[level][k], s, q, kw)

MatchedIn(t, level, kw) == MatchedInLower(lower(t), level, kw)

\* every keyword of the match was matched in the text by its level
MatchFromText(t, m) ==
  /\ m.keywords_found # <<>>
  /\ \A j \in 1..Len(m.keywords_found) :
       /\ Contains(lower(t), m.keywords_found[j])
       /\ MatchedIn(t, m.level, m.keywords_found[j])

\* C24: every element of keywords_found of every match returned by
\* find_education_matches and get_highest_education is a substring of the
\* lower-cased input text that a pattern of the match's level matched there;
\* a level is in the result only if one of its patterns matched at least once.
C24_KeywordsFromText ==
  Returned =>
    /\ \A i \in 1..Len(CaseMatches) : MatchFromText(tc_text, CaseMatches[i])
    /\ \A i \in 1..Len(highest_result) : MatchFromText(tc_text, highest_result[i])

\* a match whose keyword is in the text only after lower-casing, next to a
\* requested level that is left out because none of its patterns matched
C24_Witness ==
  /\ pc = "done"
  /\ Len(tc_levels) = 2
  /\ Len(CaseMatches) = 1
  /\ Len(highest_result) = 1
  /\ \E j \in 1..Len(highest_result[1].keywords_found) :
       ~Contains(tc_text, highest_result[1].keywords_found[j])
  /\ \E i \in 1..2 :
       tc_levels[i] \in DOMAIN education_patterns /\ tc_levels[i] # highest_result[1].level

\* C25: get_highest_education(text, levels) depends only on (text, levels):
\* all calls with the same arguments, whatever other matcher calls run in
\* between or at the same time, return the same result, the one of a call
\* that runs alone; no matcher operation changes the pattern table or the
\* hierarchy table.
C25_Stateless ==
  /\ (education_matcher # <<>>) =>
       /\ education_matcher.education_patterns = education_patterns
       /\ education_matcher.education_hierarchy = education_hierarchy
  /\ (matcher_calls # <<>>) =>
       /\ \A r, q \in matcher_calls.returned :
            (r.text = q.text /\ r.target_levels = q.target_levels) => r.highest = q.highest
       /\ \A r \in matcher_calls.returned :
            r.highest = get_highest_education(r.text, r.target_levels)

\* one thread has called with the same arguments twice and the other thread
\* is in the middle of a call of another method on another text
C25_Witness ==
  /\ matcher_calls # <<>>
  /\ \E c, d \in Callers :
       /\ Frame(c).pc = "returned" /\ Frame(c).calls = 2
       /\ [text |-> Frame(c).text, target_levels |-> Frame(c).target_levels,
           highest |-> Frame(c).highest] \in matcher_calls.returned
       /\ Len(Frame(c).matches) = 2
       /\ Frame(d).pc = "select" /\ Frame(d).calls = 1
       /\ Frame(d).method # Frame(c).method
       /\ Frame(d).text # Frame(c).text

\* C26: the education filter does not depend on the letter case of the
\* requested level names: strict_education_filter and get_highest_education
\* give for levels written "PhD" what they give for "phd".
C26_LevelCaseInsensitive ==
  Returned =>
    /\ filter_result = strict_education_filter(tc_text, LowerAll(tc_levels))
    /\ highest_result = get_highest_education(tc_text, LowerAll(tc_levels))

\* the cleaned document holds a start keyword; it holds "work" or "experience"
HasStartKeyword == AnyIn(education_keywords, lower(clean_call.cleaned))

HasWorkWord ==
  Contains(lower(clean_call.cleaned), W_experience) \/ Contains(lower(clean_call.cleaned), W_work)

\* the confidence of a match with the bonus and the penalty as given
ConfidenceWith(m, bonus, penalty) ==
  Clamp(5 + (IF bonus THEN 3 ELSE 0)
          + (IF KeywordSet(m) \cap StrongKeywords # {} THEN 2 ELSE 0)
          - (IF penalty THEN 1 ELSE 0))

\* the cleaned text is one line, and the section is all of it or nothing
SectionAllOrNothing ==
  /\ "\n" \notin {clean_call.cleaned[i] : i \in 1..Len(clean_call.cleaned)}
  /\ clean_call.section = (IF HasStartKeyword THEN clean_call.cleaned ELSE <<>>)

\* C27 as stated: for a document cleaned by clean_resume_text the section is
\* the whole text when it holds a start keyword and empty otherwise; every
\* matched level gets the +0.3 bonus whenever the document holds a start
\* keyword, and the -0.1 penalty whenever the document holds "work" or
\* "experience" anywhere.
C27_AsStated ==
  (clean_call # <<>> /\ clean_call.pc = "done") =>
    /\ SectionAllOrNothing
    /\ \A i \in 1..Len(clean_call.matches) :
         clean_call.matches[i].confidence =
           ConfidenceWith(clean_call.matches[i], HasStartKeyword, HasWorkWord)

\* C27 amended: the section is the whole text or empty as stated, and the
\* bonus goes to every matched level of a document with a start keyword;
\* the -0.1 penalty applies when the document holds a start keyword and
\* holds "work" or "experience" anywhere: without a start keyword the
\* section is empty and nothing is deducted.
C27_NormalizedSection ==
  (clean_call # <<>> /\ clean_call.pc = "done") =>
    /\ SectionAllOrNothing
    /\ \A i \in 1..Len(clean_call.matches) :
         clean_call.matches[i].confidence =
           ConfidenceWith(clean_call.matches[i], HasStartKeyword,
                          HasStartKeyword /\ HasWorkWord)

\* a document of two lines with a header and a degree: after cleaning the
\* section is the whole line and the match has the bonus
C27_Witness ==
  /\ clean_call # <<>>
  /\ clean_call.pc = "done"
  /\ "\n" \in {clean_call.raw[i] : i \in 1..Len(clean_call.raw)}
  /\ HasStartKeyword
  /\ clean_call.section = clean_call.cleaned
  /\ Len(clean_call.matches) = 1
  /\ clean_call.matches[1].confidence = 10

\* C28: the bootstrap inserts only from the empty state: a call of
\* index_if_needed that finds an entry in the index (left by a bootstrap that
\* stopped part-way, or by index_resume) ends without an insert and leaves
\* the index as it is, and every insert of the bootstrap is made by a call
\* that found the index empty; the documents missing then stay missing.
C28_BootstrapOnlyFromEmpty ==
  [][\A c \in Callers :
       /\ (Proc(c).pc = "start" /\ bootstrap'.procs[c] # Proc(c)) =>
            IF DOMAIN collection = {}
            THEN bootstrap'.procs[c].pc = "add"
            ELSE /\ bootstrap'.procs[c].pc = "done"
                 /\ collection' = collection
       /\ (bootstrap'.procs[c].adds > Proc(c).adds) => Proc(c).existing = {}
       /\ (bootstrap'.procs[c].pc = "add") => bootstrap'.procs[c].existing = {}]_vars

\* a bootstrap stopped part-way after at least one insert, a later call of
\* the same process ended without an insert, and documents are missing
C28_Witness ==
  /\ bootstrap # <<>>
  /\ "uploads" \in DOMAIN bootstrap
  /\ \E c \in Callers :
       /\ Proc(c).calls = 2
       /\ Proc(c).pc = "done"
       /\ Proc(c).existing # {}
       /\ Proc(c).adds >= 1
       /\ Proc(c).adds < Len(load_documents)
  /\ DOMAIN collection # {}
  /\ \E k \in 1..Len(load_documents) : load_documents[k] \notin DOMAIN collection

\* C29: after any sequence of shortlist and reject actions run one at a
\* time, the shortlists table holds exactly one row for each pair
\* (resume_id, job_id) that was ever passed and none for other pairs, and
\* the status of that row is the status of the most recent call for the pair.
C29_OneRowPerPair ==
  /\ \A pair \in DOMAIN shortlist_calls :
       /\ Cardinality(Matching(shortlists, pair[1], pair[2])) = 1
       /\ \A k \in Matching(shortlists, pair[1], pair[2]) :
            shortlists[k].status = shortlist_calls[pair].status
  /\ \A k \in 1..Len(shortlists) :
       <<shortlists[k].resume_id, shortlists[k].job_id>> \in DOMAIN shortlist_calls

\* a resume was shortlisted for a job and then rejected for it, and another
\* pair was passed as well: two rows, the first one now rejected
C29_Witness ==
  /\ Len(shortlists) = 2
  /\ shortlists[1].status = "rejected"
  /\ <<shortlists[1].resume_id, shortlists[1].job_id>> \in DOMAIN shortlist_calls
  /\ shortlist_calls[<<shortlists[1].resume_id, shortlists[1].job_id>>].times = 2
  /\ shortlists[2].status = "shortlisted"

\* C30: a request is admitted by require_login only if its own Flask session
\* holds the Supabase tokens of a signed-in user; a request whose session
\* holds no tokens is sent to login, whoever signed in through the shared
\* client before it.
C30_OnlyOwnTokensAdmit ==
  served.admitted => served.had_tokens
====
